---- MODULE Spec2Model ----
(***************************************************************************)
(* A model of the duckdb web-search extension: the predicate and limit     *)
(* pushdown that shape a GoogleSearchBindData, and the paginated fetch     *)
(* loops of google_search() and google_image_search().                     *)
(*                                                                         *)
(* One scan is modelled from bind to the end of its fetch phase.  The      *)
(* upstream API is the environment: every page response is drawn from a    *)
(* small set of outcomes.                                                  *)
(***************************************************************************)
EXTENDS Integers, Sequences, FiniteSets, TLC

(***************************************************************************)
(* Program constants.                                                      *)
(***************************************************************************)
\* idx_t max_results = 100 in GoogleSearchBindData / GoogleImageSearchBindData
DefaultMaxResults == 100
\* std::min(limit_value, (idx_t)100) in the limit pushdown
LimitPushdownCap == 100
\* "next_start >= 100": Google serves at most 100 results per query
MaxStartIndex == 100
\* "&num=10": the page size asked of the API
PageSize == 10
\* "diff_seconds / 86400": the seconds of a day
DaySeconds == 86400
\* RetryConfig
MaxRetries == 3
InitialBackoffMs == 100
BackoffMultiplier == 2
MaxBackoffMs == 10000
\* the largest int, the type of wait_ms and of std::stoi's result
IntMax == 2147483647
\* "seconds * 1000"
MsPerSecond == 1000

(***************************************************************************)
(* Bounds of the model.                                                    *)
(***************************************************************************)
\* honest continuation tokens 1, 11, ... 1 + PageSize * MaxTokenPage
MaxTokenPage == 1
\* the number of items of a page that is not full
PartialPage == 5
\* the row cap of the per-site loop over two sites
MaxFetchCap == 150
\* the largest number of results a faithful upstream holds
MaxAvailable == 110
\* the largest constant of a LIMIT node
MaxLimit == 150
\* the longest predicate list handed to pushdown_complex_filter
MaxFilters == 3
\* the row cap of a scan through HttpClient::Fetch
ScanCap == 15
\* the largest number of operators above the scan
MaxPlan == 3
\* the days the clock shows at the start of a scan
ClockDays == 800
\* the oldest date lower bound, in days before the start of the scan
MaxElapsedDays == 740
\* the days the clock advances at most
MaxClockTicks == 2

Min(a, b) == IF a <= b THEN a ELSE b

ClockStart == ClockDays * DaySeconds

\* the rows of one DataChunk
STANDARD_VECTOR_SIZE == 2048

VARIABLES
    pc,               \* position of the scan: "start", "bound", "filtered", "optimized",
                      \* "fetch", "complete", "done", "failed"
    secret,           \* the google_search secret the SecretManager holds: NoSecret or its
                      \* secret_map
    api_key,          \* bind_data.api_key
    cx,               \* bind_data.cx
    func,             \* the table function of the scan's LogicalGet
    plan,             \* operators above the LogicalGet, root first
    filters,          \* the predicate list handed to pushdown_complex_filter
    max_results,      \* bind_data.max_results
    site_includes,    \* bind_data.site_includes
    site_excludes,    \* bind_data.site_excludes
    has_date_filter,  \* bind_data.has_date_filter
    date_from,        \* bind_data.date_from.value
    date_to,          \* bind_data.date_to.value
    sort,             \* bind_data.filters.sort
    results_size,     \* state.results.size()
    next_start,       \* state.next_start (combined query, image search)
    fetch_complete,   \* state.fetch_complete
    site_states,      \* state.site_states: index -> [next_start, exhausted]
    current_site_idx, \* state.current_site_idx
    current_idx,      \* state.current_idx: the records handed to the caller so far
    error,            \* the exception that ended the scan, "" if none
    message,          \* its message: [exception, text, detail, status]
    fetched,          \* the last call of HttpClient::Fetch on its own: its arguments, the
                      \* replies of http_get, the response returned and the waits slept
    now,              \* std::chrono::system_clock::now(), in seconds
    total_available,  \* upstream: the number of results it holds for the query when it
                      \* pages through them faithfully, Arbitrary or Coarse otherwise
    requests,         \* history: number of HttpClient::Fetch calls of the scan
    served,           \* history: number of items in all pages received
    full_pages,       \* history: every page so far had PageSize items and a continuation token
    last,             \* history: the last request (start, site index, -1 for none; the
                      \* arguments and the result of its BuildGoogleSearchUrl call and the
                      \* clock at the call) and the continuation start index parsed from
                      \* its response
    since,            \* history: since[i][k] = requests to site k after the last request to site i
    visited,          \* history: visited[i] = site i has been requested
    json_items,       \* the items array of the response being parsed, where the records
                      \* are followed field by field (SpecRecord): [link, date]
    results,          \* state.results, where the records are followed field by field
    output,           \* the DataChunk filled by the last GoogleSearchScan call
    gstate,           \* COPY ... (FORMAT google_pse_annotation): AnnotationCopyGlobalState
                      \* [handle, lock, annotation_count, bytes_written]; the handle is the
                      \* file: the pieces written to it and whether it is closed
    sinks             \* the AnnotationCopySink call of each worker: [pc, input, row_idx, xml]

bindVars == <<func, plan, filters, max_results, site_includes, site_excludes,
             has_date_filter, date_from, date_to, sort, api_key, cx>>
stateVars == <<results_size, next_start, fetch_complete, site_states, current_site_idx,
              current_idx>>
histVars == <<requests, served, full_pages, last, since, visited>>
envVars == <<total_available, now, secret>>
httpVars == <<fetched>>
recordVars == <<json_items, results, output>>
copyVars == <<gstate, sinks>>
vars == <<pc, bindVars, stateVars, error, message, envVars, httpVars, recordVars, copyVars,
          histVars>>

(***************************************************************************)
(* HttpClient.                                                             *)
(*                                                                         *)
(* An HttpResponse is [status_code, body, retry_after, error, success].    *)
(* Its error is a sequence of text parts, empty when there is none; a body *)
(* is [kind, items, token, reason]: kind "ok" for a JSON document without  *)
(* an error member, "api_error" for one with it (reason its message, ""    *)
(* when it has none), "malformed" for a body yyjson_read rejects.          *)
(***************************************************************************)
\* queries.nextPage[0].startIndex of a page; -1 stands for "absent or not an integer"
NoToken == -1
NoError == <<>>
Message(exception, text, detail, status) ==
    [exception |-> exception, text |-> text, detail |-> detail, status |-> status]
NoMessage == Message("", "", NoError, 0)
NoFetch == [calls |-> 0]

RetryConfig ==
    [max_retries |-> MaxRetries, initial_backoff_ms |-> InitialBackoffMs,
     backoff_multiplier |-> BackoffMultiplier, max_backoff_ms |-> MaxBackoffMs]

IsRetryableMutClientErrors(status_code) == status_code <= 0 \/ status_code >= 400

\* HttpClient::IsRetryable
IsRetryable(status_code) ==
    \/ status_code <= 0
    \/ status_code = 429
    \/ status_code >= 500 /\ status_code <= 504

\* std::stoi on the header values the replies of the model carry; ok is FALSE where it
\* throws
StoI(str) ==
    CASE str = "0" -> [ok |-> TRUE, value |-> 0]
      [] str = "2" -> [ok |-> TRUE, value |-> 2]
      [] str = "30" -> [ok |-> TRUE, value |-> 30]
      [] str = "-1" -> [ok |-> TRUE, value |-> -1]
      [] str = "3000000" -> [ok |-> TRUE, value |-> 3000000]
      [] OTHER -> [ok |-> FALSE, value |-> 0]

\* a * b in 32-bit two's complement, for 0 <= a <= IntMax and 0 <= b < 2^15
WrapMul(a, b) ==
    LET p == (a % 65536) * b
        hi == (((a \div 65536) * b) + (p \div 65536)) % 65536
    IN  (IF hi >= 32768 THEN hi - 65536 ELSE hi) * 65536 + (p % 65536)

\* HttpClient::ParseRetryAfter: the values it can return.  "seconds * 1000" is an int
\* multiplication: when it overflows the behaviour is undefined, and the value is the
\* wrapped product or any other int, for which IntMax stands
ParseRetryAfter(retry_after) ==
    IF retry_after = "" THEN {0}
    ELSE LET seconds == StoI(retry_after) IN
         IF ~seconds.ok THEN {0}
         ELSE IF seconds.value <= IntMax \div MsPerSecond
              THEN {seconds.value * MsPerSecond}
              ELSE {WrapMul(seconds.value, MsPerSecond), IntMax}

RECURSIVE Pow(_, _)
Pow(b, n) == IF n = 0 THEN 1 ELSE b * Pow(b, n - 1)

\* static_cast<int>(config.initial_backoff_ms * std::pow(config.backoff_multiplier, attempt))
Backoff(config, attempt) ==
    config.initial_backoff_ms * Pow(config.backoff_multiplier, attempt)

\* "Calculate wait time" and "Cap at max backoff": the values of wait_ms slept
WaitMs(config, response, attempt) ==
    IF response.status_code = 429 /\ response.retry_after # ""
    THEN {Min(IF wait_ms <= 0 THEN Backoff(config, attempt) ELSE wait_ms,
              config.max_backoff_ms) : wait_ms \in ParseRetryAfter(response.retry_after)}
    ELSE {Min(Backoff(config, attempt), config.max_backoff_ms)}

NoBody == [kind |-> "malformed", items |-> 0, token |-> NoToken, reason |-> ""]

\* HttpClient::ExecuteHttpGet on what its connection gave: LOAD http_request failed, or
\* the http_get query failed, or it gave a row [status, body, retry_after].  queries is
\* history: the http_get queries the attempt ran
ExecuteHttpGet(got) ==
    IF ~got.loaded
    THEN [status_code |-> 0, body |-> NoBody, retry_after |-> "",
          error |-> <<"Failed to load http_request extension">>, success |-> FALSE,
          queries |-> 0]
    ELSE IF got.failed
    THEN [status_code |-> 0, body |-> NoBody, retry_after |-> "",
          error |-> <<"http_get failed">>, success |-> FALSE, queries |-> 1]
    ELSE [status_code |-> got.status, body |-> got.body, retry_after |-> got.retry_after,
          error |-> NoError, success |-> got.status >= 200 /\ got.status < 300,
          queries |-> 1]

\* "Max retries exceeded for URL: " + url
MaxRetriesExceeded(url) == <<"Max retries exceeded for URL: ", url>>

GiveUpMutEarly(config, attempt) == attempt + 1 >= config.max_retries

\* "Check if we've exhausted retries"
GiveUp(config, attempt) == attempt >= config.max_retries

RECURSIVE FetchFromMutStaleBody(_, _, _, _, _)
FetchFromMutStaleBody(url, config, gets, attempt, waits) ==
    LET response == ExecuteHttpGet(gets[attempt + 1])
        returned(r) == {[response |-> [r EXCEPT !.body = ExecuteHttpGet(gets[1]).body],
                         calls |-> attempt + 1, waits |-> waits]}
    IN  IF response.success THEN returned(response)
        ELSE IF ~IsRetryable(response.status_code) THEN returned(response)
        ELSE IF GiveUp(config, attempt)
             THEN returned([response EXCEPT !.error = MaxRetriesExceeded(url)])
        ELSE UNION {FetchFromMutStaleBody(url, config, gets, attempt + 1,
                                          Append(waits, wait_ms)) :
                        wait_ms \in WaitMs(config, response, attempt)}

\* HttpClient::Fetch from loop index `attempt` on, gets[i] being what the i-th http_get
\* of the call gives: the set of its outcomes [response, calls, waits]
RECURSIVE FetchFromMutSleepFirst(_, _, _, _, _)
FetchFromMutSleepFirst(url, config, gets, attempt, waits) ==
    LET response == ExecuteHttpGet(gets[attempt + 1])
        returned(r) == {[response |-> r, calls |-> attempt + 1, waits |-> waits]}
        slept(r) == {[response |-> r, calls |-> attempt + 1, waits |-> Append(waits, wait_ms)] :
                        wait_ms \in WaitMs(config, response, attempt)}
    IN  IF response.success THEN returned(response)
        ELSE IF ~IsRetryable(response.status_code) THEN returned(response)
        ELSE IF GiveUp(config, attempt)
             THEN slept([response EXCEPT !.error = MaxRetriesExceeded(url)])
        ELSE UNION {FetchFromMutSleepFirst(url, config, gets, attempt + 1,
                                           Append(waits, wait_ms)) :
                        wait_ms \in WaitMs(config, response, attempt)}

RECURSIVE FetchFrom(_, _, _, _, _)
FetchFrom(url, config, gets, attempt, waits) ==
    LET response == ExecuteHttpGet(gets[attempt + 1])
        returned(r) == {[response |-> r, calls |-> attempt + 1, waits |-> waits]}
    IN  IF response.success THEN returned(response)
        ELSE IF ~IsRetryable(response.status_code) THEN returned(response)
        ELSE IF GiveUp(config, attempt)
             THEN returned([response EXCEPT !.error = MaxRetriesExceeded(url)])
        ELSE UNION {FetchFrom(url, config, gets, attempt + 1, Append(waits, wait_ms)) :
                        wait_ms \in WaitMs(config, response, attempt)}

\* HttpClient::Fetch
HttpClientFetch(url, config, gets) == FetchFrom(url, config, gets, 0, <<>>)

(***************************************************************************)
(* The upstream API (environment).                                         *)
(***************************************************************************)
HonestTokens == {1 + PageSize * k : k \in 0..MaxTokenPage}
EdgeTokens == {MaxStartIndex, MaxStartIndex + 1}
Tokens == {NoToken} \cup HonestTokens \cup EdgeTokens
\* number of elements of the items array of a page
ItemCounts == {0, PartialPage, PageSize}
\* status codes HttpClient::Fetch can return with success = false
FailureStatus == {400, 401, 403, 503}

\* what the fetch loops see of one HttpClient::Fetch call: of the response its kind
\* ("http_error" without success, else the kind of its body), the items and continuation
\* index of the body, the status code, the error text and the message of the body's
\* error member; and the http_get calls made, the waits slept and, where the model
\* follows them, what the calls gave
Response(kind, items, token, status) ==
    [kind |-> kind, items |-> items, token |-> token, status |-> status,
     error |-> NoError, reason |-> "", calls |-> 1, waits |-> <<>>, gets |-> <<>>]
OkResponses == {Response("ok", n, t, 200) : n \in ItemCounts, t \in Tokens}
BadResponses ==
    {Response("http_error", 0, NoToken, s) : s \in FailureStatus}
    \cup {Response(k, 0, NoToken, 200) : k \in {"api_error", "malformed"}}
Responses == OkResponses \cup BadResponses

\* a faithful upstream holding total_available results: the page that starts at `start`
Max(a, b) == IF a >= b THEN a ELSE b
HonestResponse(start) ==
    Response("ok", Min(PageSize, Max(0, total_available - start + 1)),
             IF start + PageSize <= total_available THEN start + PageSize ELSE NoToken,
             200)
\* the value of total_available that stands for an upstream answering arbitrarily
Arbitrary == MaxAvailable + 1
\* the value of total_available that stands for an upstream whose pages are full or
\* empty and whose continuation index, if any, is 1 or MaxStartIndex; it may fail as well
Coarse == MaxAvailable + 2
CoarseResponses ==
    {r \in Responses :
        r.kind = "ok" => r.items \in {0, PageSize} /\ r.token \in {NoToken, 1, MaxStartIndex}}
PageResponses(start) ==
    IF total_available = Arbitrary THEN Responses
    ELSE IF total_available = Coarse THEN CoarseResponses
    ELSE {HonestResponse(start)}

\* the value of total_available that stands for an upstream reached through
\* HttpClient::Fetch, each http_get of which gives one of ScanGets
Flaky == MaxAvailable + 3
ScanBodies(start) ==
    {[kind |-> "ok", items |-> PageSize, token |-> start + PageSize, reason |-> ""],
     [kind |-> "ok", items |-> 0, token |-> NoToken, reason |-> ""],
     [kind |-> "api_error", items |-> PageSize, token |-> start + PageSize,
      reason |-> "quota exceeded"],
     [kind |-> "api_error", items |-> 0, token |-> NoToken, reason |-> ""],
     [kind |-> "malformed", items |-> 0, token |-> NoToken, reason |-> ""]}
ReasonBody == [kind |-> "api_error", items |-> 0, token |-> NoToken, reason |-> "bad key"]
ScanGets(start) ==
    {[loaded |-> TRUE, failed |-> TRUE, status |-> 0, body |-> NoBody, retry_after |-> ""]}
    \cup {[loaded |-> TRUE, failed |-> FALSE, status |-> 200, body |-> b,
           retry_after |-> ""] : b \in ScanBodies(start)}
    \cup {[loaded |-> TRUE, failed |-> FALSE, status |-> status, body |-> ReasonBody,
           retry_after |-> ""] : status \in {400, 401, 403, 500}}
    \cup {[loaded |-> TRUE, failed |-> FALSE, status |-> 403, body |-> NoBody,
           retry_after |-> ""],
          [loaded |-> TRUE, failed |-> FALSE, status |-> 429, body |-> ReasonBody,
           retry_after |-> "2"]}

\* what a fetch loop sees of the outcome `out` of an HttpClient::Fetch call whose
\* http_get queries gave gets
RespOf(out, gets) ==
    LET response == out.response IN
    [kind |-> IF response.success THEN response.body.kind ELSE "http_error",
     items |-> response.body.items, token |-> response.body.token,
     status |-> response.status_code, error |-> response.error,
     reason |-> response.body.reason, calls |-> out.calls, waits |-> out.waits,
     gets |-> SubSeq(gets, 1, out.calls)]

\* "auto response = HttpClient::Fetch(context, url, retry_config)" for request req
FetchOutcomes(req) ==
    IF total_available = Flaky
    THEN UNION {{RespOf(out, gets) : out \in HttpClientFetch(req.url, RetryConfig, gets)} :
                    gets \in [1..(MaxRetries + 1) -> ScanGets(req.start)]}
    ELSE PageResponses(req.start)

(***************************************************************************)
(* GoogleSearchGlobalState / GoogleImageSearchGlobalState after            *)
(* construction.                                                           *)
(***************************************************************************)
SitePaginationState == [next_start |-> 1, exhausted |-> FALSE]

NumSites == Len(site_includes)
SiteIdx == 0..(NumSites - 1)

(***************************************************************************)
(* ParseGoogleSearchResponse: the records appended from a page of `items`  *)
(* items when the accumulator holds `size` records.                        *)
(***************************************************************************)
AppendedMutNoCap(items, size) == items

Appended(items, size) ==
    IF size >= max_results THEN 0 ELSE Min(items, max_results - size)

ParsedNextStartMutNoToken(resp) == -1

ParsedNextStartMutIgnoreEmpty(resp) == resp.token

\* the value ParseGoogleSearchResponse returns: -1 without items, else the token
ParsedNextStart(resp) == IF resp.items = 0 THEN -1 ELSE resp.token

\* the exception a response raises, "" if none
ResponseError(resp) ==
    CASE resp.kind = "http_error" /\ resp.status = 401 -> "invalid_api_key"
      [] resp.kind = "http_error" /\ resp.status = 403 -> "access_denied"
      [] resp.kind = "http_error" /\ resp.status = 400 -> "invalid_request"
      [] resp.kind = "http_error" -> "io_error"
      [] resp.kind = "malformed" -> "parse_error"
      [] resp.kind = "api_error" -> "api_error"
      [] OTHER -> ""

ErrMsgMutNoReason(reason) == <<"Unknown error">>

\* string err_msg: the message member of the error object, "Unknown error" without one
ErrMsg(reason) == IF reason # "" THEN <<reason>> ELSE <<"Unknown error">>

\* the message of the exception a response raises
ResponseMessage(resp) ==
    CASE resp.kind = "http_error" /\ resp.status = 401 ->
            Message("InvalidInputException", "Google Search API: Invalid API key", NoError, 0)
      [] resp.kind = "http_error" /\ resp.status = 403 ->
            Message("InvalidInputException",
                    "Google Search API: Access denied or quota exceeded", NoError, 0)
      [] resp.kind = "http_error" /\ resp.status = 400 ->
            Message("InvalidInputException", "Google Search API: Invalid request - %s",
                    resp.error, 0)
      [] resp.kind = "http_error" ->
            Message("IOException", "Google Search API error: %s (status %d)",
                    resp.error, resp.status)
      [] resp.kind = "malformed" ->
            Message("IOException", "Failed to parse Google Search API response as JSON",
                    NoError, 0)
      [] resp.kind = "api_error" ->
            Message("InvalidInputException", "Google Search API error: %s",
                    ErrMsg(resp.reason), 0)
      [] OTHER -> NoMessage

(***************************************************************************)
(* GoogleSearchPushdownComplexFilter.                                      *)
(*                                                                         *)
(* A predicate is [cls, etype, fname, col, args]: its expression class and *)
(* type, the function name of a BOUND_FUNCTION, the name of the column     *)
(* reference that is its first child ("" when the first child is no column *)
(* reference) and its remaining children, each [is_const, ltype, val].     *)
(***************************************************************************)
IsVarcharConst(a) == a.is_const /\ a.ltype = "VARCHAR"

RECURSIVE AllVarcharConst(_)
AllVarcharConst(args) ==
    IF args = <<>> THEN TRUE
    ELSE IsVarcharConst(Head(args)) /\ AllVarcharConst(Tail(args))

ConstValuesMutReversed(args) == [j \in DOMAIN args |-> args[Len(args) + 1 - j].val]

RECURSIVE ConstValues(_)
ConstValues(args) ==
    IF args = <<>> THEN <<>> ELSE <<Head(args).val>> \o ConstValues(Tail(args))

IsTimestampType(ltype) == ltype \in {"TIMESTAMP", "TIMESTAMP_TZ", "DATE", "VARCHAR"}

\* Timestamp::FromString on the strings the predicates of the model carry, in seconds
\* since the epoch; ok is FALSE where it raises a ConversionException
TimestampFromString(ts_str) ==
    CASE ts_str = "1970-01-01 00:00:05" -> [ok |-> TRUE, value |-> 5]
      [] ts_str = "1970-01-02" -> [ok |-> TRUE, value |-> DaySeconds]
      [] OTHER -> [ok |-> FALSE, value |-> 0]

\* ts_value of a date comparison whose constant is a (IsTimestampType holds of it): a
\* TIMESTAMP is its stored value, a DATE (in days) the midnight that begins it
ConstantTimestamp(a) ==
    CASE a.ltype \in {"TIMESTAMP", "TIMESTAMP_TZ"} -> [ok |-> TRUE, value |-> a.val]
      [] a.ltype = "DATE" -> [ok |-> TRUE, value |-> a.val * DaySeconds]
      [] a.ltype = "VARCHAR" -> TimestampFromString(a.val)

\* what one turn of the loop over the filters does with filter f:
\* "include", "exclude", "date_from", "date_to" or "none"
FilterAction(f) ==
    CASE f.cls = "BOUND_FUNCTION" /\ f.fname \in {"suffix", "prefix"} /\ f.col = "site"
            /\ Len(f.args) >= 1 /\ IsVarcharConst(f.args[1]) -> "include"
      [] f.cls = "BOUND_OPERATOR" /\ f.col = "site" /\ Len(f.args) >= 1
            /\ AllVarcharConst(f.args) -> "include_all"
      [] f.cls = "BOUND_COMPARISON" /\ f.etype = "COMPARE_EQUAL" /\ f.col = "site"
            /\ Len(f.args) = 1 /\ IsVarcharConst(f.args[1]) -> "include"
      [] f.cls = "BOUND_COMPARISON" /\ f.etype = "COMPARE_NOTEQUAL" /\ f.col = "site"
            /\ Len(f.args) = 1 /\ IsVarcharConst(f.args[1]) -> "exclude"
      [] f.cls = "BOUND_COMPARISON"
            /\ f.etype \in {"COMPARE_GREATERTHAN", "COMPARE_GREATERTHANOREQUALTO"}
            /\ f.col \in {"timestamp", "date"} /\ Len(f.args) = 1 /\ f.args[1].is_const
            /\ IsTimestampType(f.args[1].ltype) -> "date_from"
      [] f.cls = "BOUND_COMPARISON"
            /\ f.etype \in {"COMPARE_LESSTHAN", "COMPARE_LESSTHANOREQUALTO"}
            /\ f.col \in {"timestamp", "date"} /\ Len(f.args) = 1 /\ f.args[1].is_const
            /\ IsTimestampType(f.args[1].ltype) -> "date_to"
      [] OTHER -> "none"

FilterRemovedMutDates(f) == FilterAction(f) # "none"

\* filters_to_remove.push_back(i) is reached for filter f
FilterRemoved(f) == FilterAction(f) \in {"include", "include_all", "exclude"}

\* the bind data after the loop has run over fs, starting from b; b.threw when
\* Timestamp::FromString raised, which ends the loop
RECURSIVE AbsorbFilters(_, _)
AbsorbFilters(fs, b) ==
    IF fs = <<>> \/ b.threw THEN b
    ELSE LET f == Head(fs)
             act == FilterAction(f)
             ts == ConstantTimestamp(f.args[1])
             nb == CASE act = "include" ->
                          [b EXCEPT !.site_includes = Append(@, f.args[1].val)]
                      [] act = "include_all" ->
                          [b EXCEPT !.site_includes = @ \o ConstValues(f.args)]
                      [] act = "exclude" ->
                          [b EXCEPT !.site_excludes = Append(@, f.args[1].val)]
                      [] act = "date_from" /\ ts.ok ->
                          [b EXCEPT !.date_from = ts.value, !.has_date_filter = TRUE]
                      [] act = "date_to" /\ ts.ok ->
                          [b EXCEPT !.date_to = ts.value, !.has_date_filter = TRUE]
                      [] act \in {"date_from", "date_to"} /\ ~ts.ok ->
                          [b EXCEPT !.threw = TRUE]
                      [] OTHER -> b
         IN  AbsorbFilters(Tail(fs), nb)

RECURSIVE ResidualFiltersMutReversed(_)
ResidualFiltersMutReversed(fs) ==
    IF fs = <<>> THEN <<>>
    ELSE ResidualFiltersMutReversed(Tail(fs))
            \o (IF FilterRemoved(Head(fs)) THEN <<>> ELSE <<Head(fs)>>)

\* the filters left after "Remove pushed down filters"
RECURSIVE ResidualFilters(_)
ResidualFilters(fs) ==
    IF fs = <<>> THEN <<>>
    ELSE (IF FilterRemoved(Head(fs)) THEN <<>> ELSE <<Head(fs)>>) \o ResidualFilters(Tail(fs))

GoogleSearchPushdownComplexFilter ==
    /\ pc = "bound"
    /\ func = "google_search"
    /\ LET b == AbsorbFilters(filters,
                    [site_includes |-> site_includes, site_excludes |-> site_excludes,
                     date_from |-> date_from, date_to |-> date_to,
                     has_date_filter |-> has_date_filter, threw |-> FALSE])
       IN  /\ site_includes' = b.site_includes
           /\ site_excludes' = b.site_excludes
           /\ date_from' = b.date_from
           /\ date_to' = b.date_to
           /\ has_date_filter' = b.has_date_filter
           /\ filters' = IF b.threw THEN filters ELSE ResidualFilters(filters)
           /\ pc' = IF b.threw THEN "failed" ELSE "filtered"
           /\ error' = IF b.threw THEN "ConversionException" ELSE error
           /\ message' = IF b.threw
                         THEN Message("ConversionException", "timestamp field value out of range",
                                      NoError, 0)
                         ELSE message
    /\ UNCHANGED <<func, plan, max_results, sort, api_key, cx, stateVars, envVars, httpVars, recordVars, copyVars,
                   histVars>>

(***************************************************************************)
(* The optimizer extension.                                                *)
(*                                                                         *)
(* The plan is the chain of operators above the scan's LogicalGet, root    *)
(* first; the LogicalGet itself, of table function func, ends the chain.   *)
(* A node is [type, limit_type, limit_value, offset, orders]; an order is  *)
(* [is_colref, column_index, order_type].                                  *)
(***************************************************************************)
\* bind_data.column_names, 0-based as col_ref.binding.column_index
ColumnNames == <<"title", "link", "snippet", "display_link", "formatted_url",
                 "html_formatted_url", "html_title", "html_snippet", "mime",
                 "file_format", "pagemap", "site", "date">>

SkipProjectionsMutNone(p, i) == i

\* "Skip projection operators to find the GET": the index the skipping ends at,
\* Len(p) + 1 when it ends at the LogicalGet
RECURSIVE SkipProjections(_, _)
SkipProjections(p, i) ==
    IF i <= Len(p) /\ p[i].type = "LOGICAL_PROJECTION" THEN SkipProjections(p, i + 1) ELSE i

ClampLimitMutNoClamp(limit_value) == limit_value

\* std::min(limit_value, (idx_t)100)
ClampLimit(limit_value) == Min(limit_value, LimitPushdownCap)

\* OptimizeGoogleSearchLimitPushdown / OptimizeGoogleImageSearchLimitPushdown applied
\* to node i of the plan: the max_results of the bind data of a LogicalGet of table
\* function `name` afterwards, mr before
RECURSIVE LimitPushdown(_, _, _, _)
LimitPushdown(p, i, name, mr) ==
    IF i > Len(p) THEN mr
    ELSE IF p[i].type = "LOGICAL_LIMIT"
         THEN IF SkipProjections(p, i + 1) <= Len(p) THEN LimitPushdown(p, i + 1, name, mr)
              ELSE IF func # name THEN LimitPushdown(p, i + 1, name, mr)
              ELSE IF p[i].limit_type \notin {"CONSTANT_VALUE", "UNSET"}
                   THEN LimitPushdown(p, i + 1, name, mr)
              ELSE IF p[i].limit_type = "CONSTANT_VALUE" THEN ClampLimit(p[i].limit_value)
              ELSE mr
         ELSE LimitPushdown(p, i + 1, name, mr)

\* "Map column name to Google sort parameter", for the column date
SortParam(order_type) == IF order_type = "DESCENDING" THEN "date:d" ELSE "date:a"

SetSortMutOverwrite(st, sort_param) == sort_param

\* "Set the sort parameter (only if not already set via named param)"
SetSort(st, sort_param) == IF st = "" THEN sort_param ELSE st

\* OptimizeGoogleSearchOrderByPushdown applied to node i of the plan: filters.sort
\* afterwards, st before
RECURSIVE OrderByPushdown(_, _, _)
OrderByPushdown(p, i, st) ==
    IF i > Len(p) THEN st
    ELSE IF p[i].type = "LOGICAL_ORDER_BY"
         THEN IF SkipProjections(p, i + 1) <= Len(p) THEN OrderByPushdown(p, i + 1, st)
              ELSE IF func # "google_search" THEN OrderByPushdown(p, i + 1, st)
              ELSE IF Len(p[i].orders) # 1 THEN OrderByPushdown(p, i + 1, st)
              ELSE IF ~p[i].orders[1].is_colref THEN OrderByPushdown(p, i + 1, st)
              ELSE IF p[i].orders[1].column_index >= Len(ColumnNames)
                   THEN OrderByPushdown(p, i + 1, st)
              ELSE IF ColumnNames[p[i].orders[1].column_index + 1] # "date"
                   THEN OrderByPushdown(p, i + 1, st)
              ELSE SetSort(st, SortParam(p[i].orders[1].order_type))
         ELSE OrderByPushdown(p, i + 1, st)

\* WebSearchOptimizer: the three pushdowns, in this order, over the whole plan
WebSearchOptimizer ==
    /\ \/ pc = "filtered"
       \/ pc = "bound" /\ func = "google_image_search"
    /\ max_results' = LimitPushdown(plan, 1, "google_image_search",
                          LimitPushdown(plan, 1, "google_search", max_results))
    /\ sort' = OrderByPushdown(plan, 1, sort)
    /\ pc' = "optimized"
    /\ UNCHANGED <<func, plan, filters, site_includes, site_excludes, has_date_filter,
                   date_from, date_to, api_key, cx, stateVars, error, message, envVars,
                   httpVars, recordVars, copyVars, histVars>>

(***************************************************************************)
(* TimestampToDateRestrict and BuildGoogleSearchUrl.                       *)
(*                                                                         *)
(* A URL is modelled by its parameter set, each value as it is before      *)
(* UrlEncode; a parameter the code leaves out has the empty value.  The    *)
(* query text is the sequence of its space-separated clauses, [t, v]: the  *)
(* caller's text, "(", "site:" v, "OR", ")" and "-site:" v.  Timestamps    *)
(* are whole seconds.                                                      *)
(***************************************************************************)
\* bind_data.query
Query == "x"

\* static_cast<int>(diff_seconds / 86400): the conversion truncates toward zero
TruncDiv(a, b) == IF a >= 0 THEN a \div b ELSE -((-a) \div b)

\* "d" + std::to_string(diff_days) and the like; "" is the unit of the empty string
DateRestrict(unit, n) == [unit |-> unit, n |-> n]
NoDateRestrict == DateRestrict("", 0)

TimestampToDateRestrictMutFloor(from_ts, to_ts) ==
    LET diff_days == TruncDiv(now - from_ts, DaySeconds) IN
    IF diff_days <= 0 THEN NoDateRestrict
    ELSE IF diff_days <= 7 THEN DateRestrict("d", diff_days)
    ELSE IF diff_days <= 31 THEN DateRestrict("w", diff_days \div 7)
    ELSE IF diff_days <= 365 THEN DateRestrict("m", diff_days \div 30)
    ELSE DateRestrict("y", diff_days \div 365)

TimestampToDateRestrict(from_ts, to_ts) ==
    LET diff_days == TruncDiv(now - from_ts, DaySeconds) IN
    IF diff_days <= 0 THEN NoDateRestrict
    ELSE IF diff_days <= 7 THEN DateRestrict("d", diff_days)
    ELSE IF diff_days <= 31 THEN DateRestrict("w", (diff_days + 6) \div 7)
    ELSE IF diff_days <= 365 THEN DateRestrict("m", (diff_days + 29) \div 30)
    ELSE DateRestrict("y", (diff_days + 364) \div 365)

Clause(t, v) == [t |-> t, v |-> v]

\* the loop over bind_data.site_includes inside the parentheses, from index i (1-based)
RECURSIVE OrSites(_)
OrSites(i) ==
    IF i > Len(site_includes) THEN <<>>
    ELSE (IF i > 1 THEN <<Clause("OR", "")>> ELSE <<>>)
         \o <<Clause("site:", site_includes[i])>> \o OrSites(i + 1)

IncludeClausesMutAlwaysOr(use_or_sites) ==
    IF use_or_sites /\ Len(site_includes) >= 1
    THEN <<Clause("(", "")>> \o OrSites(1) \o <<Clause(")", "")>>
    ELSE <<>>

\* "Add site includes as OR clause"
IncludeClauses(use_or_sites) ==
    IF use_or_sites /\ Len(site_includes) > 1
    THEN <<Clause("(", "")>> \o OrSites(1) \o <<Clause(")", "")>>
    ELSE IF use_or_sites /\ Len(site_includes) = 1
    THEN <<Clause("site:", site_includes[1])>>
    ELSE <<>>

ExcludeClausesMutFirstOnly(i) ==
    IF i > Len(site_excludes) THEN <<>> ELSE <<Clause("-site:", site_excludes[i])>>

\* "Add site excludes to query (-site:domain)", from index i (1-based)
RECURSIVE ExcludeClauses(_)
ExcludeClauses(i) ==
    IF i > Len(site_excludes) THEN <<>>
    ELSE <<Clause("-site:", site_excludes[i])>> \o ExcludeClauses(i + 1)

DateRestrictParamMutNoZeroTest ==
    IF has_date_filter
    THEN TimestampToDateRestrict(date_from, date_to)
    ELSE NoDateRestrict

\* "Add date restriction if set"
DateRestrictParam ==
    IF has_date_filter /\ date_from # 0
    THEN TimestampToDateRestrict(date_from, date_to)
    ELSE NoDateRestrict

BuildGoogleSearchUrl(start, site_filter, use_or_sites) ==
    [key |-> api_key,
     cx |-> cx,
     q |-> <<Clause("text", Query)>> \o IncludeClauses(use_or_sites) \o ExcludeClauses(1),
     num |-> PageSize,
     start |-> start,
     siteSearch |-> site_filter,
     siteSearchFilter |-> IF site_filter # "" THEN "i" ELSE "",
     dateRestrict |-> DateRestrictParam,
     sort |-> sort,
     searchType |-> ""]

BuildGoogleImageSearchUrl(start) ==
    [key |-> api_key,
     cx |-> cx,
     q |-> <<Clause("text", Query)>>,
     num |-> PageSize,
     start |-> start,
     siteSearch |-> "",
     siteSearchFilter |-> "",
     dateRestrict |-> NoDateRestrict,
     sort |-> "",
     searchType |-> "image"]

NoUrl == [BuildGoogleImageSearchUrl(0) EXCEPT !.key = "", !.cx = "", !.q = <<>>,
                                              !.searchType = ""]

NoRequest == [start |-> 0, site_idx |-> -1, parsed |-> NoToken, site_filter |-> "",
              use_or_sites |-> FALSE, url |-> NoUrl, clock |-> 0,
              resp |-> Response("", 0, NoToken, 0)]

(***************************************************************************)
(* FetchGoogleSearchResults.                                               *)
(***************************************************************************)
\* bool use_per_site_queries
UsePerSiteQueries == NumSites > 1 /\ max_results > DefaultMaxResults

CursorDoneMutStrict(parsed_next_start, start) ==
    parsed_next_start < 0 \/ start > MaxStartIndex

\* "next_start < 0 || <cursor>.next_start >= 100": the cursor is finished
CursorDone(parsed_next_start, start) ==
    parsed_next_start < 0 \/ start >= MaxStartIndex

AdvanceCursorMutAddPage(parsed_next_start, start) == start + PageSize

\* "<cursor>.next_start = next_start": the start index of the cursor's next request
AdvanceCursor(parsed_next_start, start) == parsed_next_start

CombinedLoopConditionMutIgnoreComplete == results_size < max_results

\* the condition of the single-query while loop
CombinedLoopCondition == results_size < max_results /\ ~fetch_complete

\* the condition of the per-site while loop
PerSiteLoopCondition == results_size < max_results

\* the inner while loop that moves current_site_idx to a site that is not exhausted
RECURSIVE SkipExhausted(_, _)
SkipExhausted(idx, attempts) ==
    IF site_states[idx].exhausted /\ attempts < NumSites
    THEN SkipExhausted((idx + 1) % NumSites, attempts + 1)
    ELSE idx

AdvanceSiteMutStay(idx) == idx

\* "Move to next site for round-robin"
AdvanceSite(idx) == (idx + 1) % NumSites

\* the loop ends normally: the fetch phase is over, the state object is kept
FetchReturns ==
    /\ pc' = "complete"
    /\ UNCHANGED <<bindVars, stateVars, error, message, envVars, httpVars, recordVars, copyVars, histVars>>

\* history of one HttpClient::Fetch call
Record(req, resp) ==
    /\ requests' = requests + 1
    /\ served' = served + (IF resp.kind = "ok" THEN resp.items ELSE 0)
    /\ full_pages' = (full_pages /\ resp.kind = "ok" /\ resp.items = PageSize
                      /\ resp.token # NoToken)
    /\ last' = [start |-> req.start, site_idx |-> req.site_idx,
                parsed |-> IF resp.kind = "ok" THEN ParsedNextStart(resp) ELSE NoToken,
                site_filter |-> req.site_filter, use_or_sites |-> req.use_or_sites,
                url |-> req.url, clock |-> now, resp |-> resp]
    /\ visited' = [i \in DOMAIN visited |-> visited[i] \/ i = req.site_idx]
    /\ since' = [i \in DOMAIN since |-> [k \in DOMAIN since[i] |->
                    IF i = req.site_idx THEN 0
                    ELSE IF k = req.site_idx THEN Min(since[i][k] + 1, 2)
                    ELSE since[i][k]]]

FetchThrowsMutKeepsRows(resp) ==
    /\ pc' = "complete"
    /\ error' = ResponseError(resp)
    /\ message' = ResponseMessage(resp)
    /\ UNCHANGED <<bindVars, stateVars, envVars, httpVars, recordVars, copyVars>>

\* an exception leaves FetchGoogleSearchResults: GoogleSearchInitGlobal's state
\* object is destroyed with everything it accumulated
FetchThrows(resp) ==
    /\ pc' = "failed"
    /\ error' = ResponseError(resp)
    /\ message' = ResponseMessage(resp)
    /\ results_size' = 0
    /\ next_start' = 1
    /\ fetch_complete' = FALSE
    /\ site_states' = [i \in DOMAIN site_states |-> SitePaginationState]
    /\ current_site_idx' = 0
    /\ current_idx' = 0
    /\ UNCHANGED <<bindVars, envVars, httpVars, recordVars, copyVars>>

PerSiteRequestMutOrSites(idx) ==
    LET start == site_states[idx].next_start IN
    [start |-> start, site_filter |-> site_includes[idx + 1], use_or_sites |-> TRUE,
     site_idx |-> idx,
     url |-> BuildGoogleSearchUrl(start, site_includes[idx + 1], TRUE)]

\* "Per-site query: use siteSearch param, no OR syntax"
PerSiteRequest(idx) ==
    LET start == site_states[idx].next_start
        site == site_includes[idx + 1]
    IN  [start |-> start, site_filter |-> site, use_or_sites |-> FALSE, site_idx |-> idx,
         url |-> BuildGoogleSearchUrl(start, site, FALSE)]

CombinedRequestMutManySites ==
    LET has_sites == Len(site_includes) > 1 IN
    [start |-> next_start, site_filter |-> "", use_or_sites |-> has_sites, site_idx |-> -1,
     url |-> BuildGoogleSearchUrl(next_start, "", has_sites)]

\* "Single query with OR sites in query string"
CombinedRequest ==
    LET has_sites == site_includes # <<>> IN
    [start |-> next_start, site_filter |-> "", use_or_sites |-> has_sites, site_idx |-> -1,
     url |-> BuildGoogleSearchUrl(next_start, "", has_sites)]

ImageRequest ==
    [start |-> next_start, site_filter |-> "", use_or_sites |-> FALSE, site_idx |-> -1,
     url |-> BuildGoogleImageSearchUrl(next_start)]

\* one evaluation of the per-site while loop: its condition and, if it holds, its body
PerSiteIteration ==
    IF ~PerSiteLoopCondition \/ (\A i \in SiteIdx : site_states[i].exhausted)
    THEN FetchReturns
    ELSE LET idx == SkipExhausted(current_site_idx, 0) IN
         IF site_states[idx].exhausted
         THEN FetchReturns
         ELSE \E resp \in FetchOutcomes(PerSiteRequest(idx)) :
              LET start == site_states[idx].next_start
                  req == PerSiteRequest(idx)
                  parsed == ParsedNextStart(resp)
              IN  /\ Record(req, resp)
                  /\ IF resp.kind # "ok"
                     THEN FetchThrows(resp)
                     ELSE /\ results_size' = results_size + Appended(resp.items, results_size)
                          /\ site_states' = [site_states EXCEPT ![idx] =
                                IF CursorDone(parsed, start)
                                THEN [@ EXCEPT !.exhausted = TRUE]
                                ELSE [@ EXCEPT !.next_start = AdvanceCursor(parsed, start)]]
                          /\ current_site_idx' = AdvanceSite(idx)
                          /\ UNCHANGED <<pc, bindVars, next_start, fetch_complete, current_idx,
                                         error, message, envVars, httpVars, recordVars, copyVars>>

\* one evaluation of the single-query while loop
CombinedIteration ==
    IF ~CombinedLoopCondition
    THEN FetchReturns
    ELSE \E resp \in FetchOutcomes(CombinedRequest) :
         LET req == CombinedRequest
             parsed == ParsedNextStart(resp)
         IN  /\ Record(req, resp)
             /\ IF resp.kind # "ok"
                THEN FetchThrows(resp)
                ELSE /\ results_size' = results_size + Appended(resp.items, results_size)
                     /\ IF CursorDone(parsed, next_start)
                        THEN fetch_complete' = TRUE /\ UNCHANGED next_start
                        ELSE /\ next_start' = AdvanceCursor(parsed, next_start)
                             /\ UNCHANGED fetch_complete
                     /\ UNCHANGED <<pc, bindVars, site_states, current_site_idx, current_idx,
                                    error, message, envVars, httpVars, recordVars, copyVars>>

FetchGoogleSearchResults ==
    /\ pc = "fetch"
    /\ func = "google_search"
    /\ IF UsePerSiteQueries THEN PerSiteIteration ELSE CombinedIteration

(***************************************************************************)
(* FetchGoogleImageSearchResults: one evaluation of its while loop.        *)
(***************************************************************************)
FetchGoogleImageSearchResults ==
    /\ pc = "fetch"
    /\ func = "google_image_search"
    /\ IF ~(results_size < max_results /\ ~fetch_complete)
       THEN FetchReturns
       ELSE \E resp \in FetchOutcomes(ImageRequest) :
            LET req == ImageRequest
            IN  /\ Record(req, resp)
                /\ IF resp.kind # "ok"
                   THEN FetchThrows(resp)
                   ELSE /\ results_size' = results_size + Appended(resp.items, results_size)
                        /\ IF resp.items = 0 \/ resp.token = NoToken
                           THEN fetch_complete' = TRUE /\ UNCHANGED next_start
                           ELSE next_start' = resp.token /\ UNCHANGED fetch_complete
                        /\ UNCHANGED <<pc, bindVars, site_states, current_site_idx, current_idx,
                                       error, message, envVars, httpVars, recordVars, copyVars>>

(***************************************************************************)
(* The fetch loops on their own: FetchGoogleSearchResults and              *)
(* FetchGoogleImageSearchResults applied to a bind_data drawn from bounded *)
(* sets, with a freshly constructed state object.                          *)
(***************************************************************************)
SiteLists == {<<>>, <<"a.com">>, <<"a.com", "b.com">>}
FetchCaps == {0, 1, 15, DefaultMaxResults, DefaultMaxResults + 1}

\* a google_search secret as CREATE SECRET stores it, and the bind_data of a scan that
\* was bound while the SecretManager held it
NoSecret == [key |-> "", cx |-> "", stored |-> FALSE]
Secret(key, cx_) == [key |-> key, cx |-> cx_, stored |-> TRUE]
Resolved ==
    /\ secret = Secret("k", "c")
    /\ api_key = secret.key
    /\ cx = secret.cx

\* no COPY to an annotation file is running
NoGlobalState == [handle |-> [pieces |-> <<>>, closed |-> FALSE], lock |-> {},
                  annotation_count |-> 0, bytes_written |-> 0]

NoCopy ==
    /\ gstate = NoGlobalState
    /\ sinks = <<>>

FreshState ==
    /\ results_size = 0
    /\ next_start = 1
    /\ fetch_complete = FALSE
    /\ site_states = [i \in (IF UsePerSiteQueries THEN SiteIdx ELSE {}) |-> SitePaginationState]
    /\ current_site_idx = 0
    /\ current_idx = 0
    /\ error = ""
    /\ message = NoMessage
    /\ fetched = NoFetch
    /\ results = <<>>
    /\ output = <<>>
    /\ requests = 0
    /\ served = 0
    /\ full_pages = TRUE
    /\ last = NoRequest
    /\ since = [i \in SiteIdx |-> [k \in SiteIdx |-> 0]]
    /\ visited = [i \in SiteIdx |-> FALSE]
    /\ now = ClockStart

InitFetch ==
    /\ pc = "fetch"
    /\ func \in {"google_search", "google_image_search"}
    /\ plan = <<>>
    /\ filters = <<>>
    /\ max_results \in FetchCaps
    /\ site_includes \in (IF func = "google_search" THEN SiteLists ELSE {<<>>})
    /\ site_excludes = <<>>
    /\ has_date_filter = FALSE
    /\ date_from = 0
    /\ date_to = 0
    /\ sort = ""
    /\ total_available = Arbitrary
    /\ Resolved
    /\ json_items = <<>>
    /\ NoCopy
    /\ FreshState

NextFetch == FetchGoogleSearchResults \/ FetchGoogleImageSearchResults

SpecFetch == InitFetch /\ [][NextFetch]_vars

\* FetchGoogleSearchResults runs its loop on the calling thread, and HttpClient::Fetch
\* returns after a bounded number of attempts: a loop that can iterate does iterate
SpecFetchLive == SpecFetch /\ WF_vars(NextFetch)

(***************************************************************************)
(* The single-query loop against a faithful upstream: every row cap up to  *)
(* the default, every number of available results up to MaxAvailable.      *)
(***************************************************************************)
InitHonest ==
    /\ pc = "fetch"
    /\ func = "google_search"
    /\ plan = <<>>
    /\ filters = <<>>
    /\ max_results \in 0..DefaultMaxResults
    /\ site_includes = <<"a.com">>
    /\ site_excludes = <<>>
    /\ has_date_filter = FALSE
    /\ date_from = 0
    /\ date_to = 0
    /\ sort = ""
    /\ total_available \in 0..MaxAvailable
    /\ Resolved
    /\ json_items = <<>>
    /\ NoCopy
    /\ FreshState

SpecHonest == InitHonest /\ [][FetchGoogleSearchResults]_vars

(***************************************************************************)
(* The per-site loop over two and over three included sites.               *)
(***************************************************************************)
InitRoundRobin ==
    /\ pc = "fetch"
    /\ func = "google_search"
    /\ plan = <<>>
    /\ filters = <<>>
    /\ \/ /\ site_includes = <<"a.com", "b.com">>
          /\ max_results = MaxFetchCap
          /\ total_available = Arbitrary
       \/ /\ site_includes = <<"a.com", "b.com", "c.com">>
          /\ max_results = DefaultMaxResults + 1
          /\ total_available = Coarse
    /\ site_excludes = <<>>
    /\ has_date_filter = FALSE
    /\ date_from = 0
    /\ date_to = 0
    /\ sort = ""
    /\ Resolved
    /\ json_items = <<>>
    /\ NoCopy
    /\ FreshState

SpecRoundRobin == InitRoundRobin /\ [][FetchGoogleSearchResults]_vars

(***************************************************************************)
(* The fetch loops of google_search with site exclusions in the bind data, *)
(* against an upstream of few answers.                                     *)
(***************************************************************************)
ExcludeLists == {<<>>, <<"x.com">>, <<"x.com", "y.com">>}

InitFetchUrl ==
    /\ pc = "fetch"
    /\ func = "google_search"
    /\ plan = <<>>
    /\ filters = <<>>
    /\ max_results \in {15, DefaultMaxResults + 1}
    /\ site_includes \in SiteLists
    /\ site_excludes \in ExcludeLists
    /\ has_date_filter = FALSE
    /\ date_from = 0
    /\ date_to = 0
    /\ sort = ""
    /\ total_available = Coarse
    /\ Resolved
    /\ json_items = <<>>
    /\ NoCopy
    /\ FreshState

SpecFetchUrl == InitFetchUrl /\ [][FetchGoogleSearchResults]_vars

(***************************************************************************)
(* BuildGoogleSearchUrl on its own: the function applied, any number of    *)
(* times, to a bind_data and to arguments drawn from bounded sets, while   *)
(* the system clock advances.                                              *)
(***************************************************************************)
CompileSiteLists == SiteLists \cup {<<"a.com", "b.com", "c.com">>}

\* a timestamp d whole days and r seconds before the start of the scan
DaysAgo(d, r) == ClockStart - d * DaySeconds - r

\* date lower bounds: from two days ahead to MaxElapsedDays back, on a day boundary and
\* one second short of the next; 0 is the value of a date_from never assigned
DateBounds ==
    {DaysAgo(d, r) : d \in (-2)..MaxElapsedDays, r \in {0, DaySeconds - 1}} \cup {0}

DateSamples == {DaysAgo(3, 0), DaysAgo(40, 0)}

InitCompile ==
    /\ pc = "compile"
    /\ func = "google_search"
    /\ plan = <<>>
    /\ filters = <<>>
    /\ max_results = DefaultMaxResults
    /\ \/ /\ site_includes \in CompileSiteLists
          /\ site_excludes \in ExcludeLists
          /\ has_date_filter \in BOOLEAN
          /\ date_from \in DateSamples
          /\ sort \in {"", "date:d"}
       \/ /\ site_includes = <<>>
          /\ site_excludes = <<>>
          /\ has_date_filter = TRUE
          /\ date_from \in DateBounds
          /\ sort = ""
    /\ date_to = 0
    /\ total_available = Arbitrary
    /\ Resolved
    /\ json_items = <<>>
    /\ NoCopy
    /\ FreshState

\* one call of BuildGoogleSearchUrl
CompileQuery ==
    /\ pc = "compile"
    /\ \E start \in {1, 1 + PageSize},
          site_filter \in {""} \cup {site_includes[i] : i \in DOMAIN site_includes},
          use_or_sites \in BOOLEAN :
          last' = [start |-> start, site_idx |-> -1, parsed |-> NoToken,
                   site_filter |-> site_filter, use_or_sites |-> use_or_sites,
                   url |-> BuildGoogleSearchUrl(start, site_filter, use_or_sites),
                   clock |-> now, resp |-> NoRequest.resp]
    /\ UNCHANGED <<pc, bindVars, stateVars, error, message, envVars, httpVars, recordVars, copyVars, requests, served, full_pages,
                   since, visited>>

\* a day passes on the system clock
ClockTick ==
    /\ pc = "compile"
    /\ now < ClockStart + MaxClockTicks * DaySeconds
    /\ now' = now + DaySeconds
    /\ UNCHANGED <<pc, bindVars, stateVars, error, message, total_available, secret, httpVars, recordVars, copyVars,
                   histVars>>

NextCompile == CompileQuery \/ ClockTick

SpecCompile == InitCompile /\ [][NextCompile]_vars

(***************************************************************************)
(* GoogleSearchInitGlobal / GoogleImageSearchInitGlobal: a state object is *)
(* constructed and the fetch loop entered.                                 *)
(***************************************************************************)
InitGlobal ==
    /\ pc = "optimized"
    /\ pc' = "fetch"
    /\ site_states' = [i \in (IF UsePerSiteQueries THEN SiteIdx ELSE {}) |-> SitePaginationState]
    /\ since' = [i \in SiteIdx |-> [k \in SiteIdx |-> 0]]
    /\ visited' = [i \in SiteIdx |-> FALSE]
    /\ UNCHANGED <<bindVars, results_size, next_start, fetch_complete, current_site_idx,
                   current_idx, error, message, envVars, httpVars, recordVars, copyVars, requests, served,
                   full_pages, last>>

(***************************************************************************)
(* A scan from bind to the end of its fetch phase.  The query's plan, its  *)
(* predicates and its sort parameter are drawn from small sets.            *)
(***************************************************************************)
NoOrders == <<>>
Node(type) == [type |-> type, limit_type |-> "UNSET", limit_value |-> 0, offset |-> 0,
               orders |-> NoOrders]
Limit(limit_type, limit_value) ==
    [Node("LOGICAL_LIMIT") EXCEPT !.limit_type = limit_type, !.limit_value = limit_value]
OrderBy(orders) == [Node("LOGICAL_ORDER_BY") EXCEPT !.orders = orders]
Order(column_index, order_type) ==
    [is_colref |-> TRUE, column_index |-> column_index, order_type |-> order_type]
DateColumn == 12

LimitValues == {0, 15, MaxLimit}

Plans ==
    {<<>>}
    \cup {<<Limit("CONSTANT_VALUE", l)>> : l \in LimitValues}
    \cup {<<Limit("CONSTANT_VALUE", 15), Node("LOGICAL_PROJECTION")>>,
          <<Limit("UNSET", 0)>>,
          <<Limit("EXPRESSION_VALUE", 0)>>,
          <<Limit("CONSTANT_VALUE", 15), Node("LOGICAL_FILTER")>>,
          <<Limit("CONSTANT_VALUE", 15), OrderBy(<<Order(DateColumn, "DESCENDING")>>)>>,
          <<OrderBy(<<Order(DateColumn, "ASCENDING")>>), Limit("CONSTANT_VALUE", MaxLimit)>>}

Const(ltype, val) == [is_const |-> TRUE, ltype |-> ltype, val |-> val]
Compare(etype, col, ltype, val) ==
    [cls |-> "BOUND_COMPARISON", etype |-> etype, fname |-> "", col |-> col,
     args |-> <<Const(ltype, val)>>]
InList(col, vals) ==
    [cls |-> "BOUND_OPERATOR", etype |-> "COMPARE_IN", fname |-> "", col |-> col,
     args |-> [i \in DOMAIN vals |-> Const("VARCHAR", vals[i])]]

FilterLists ==
    {<<>>,
     <<Compare("COMPARE_EQUAL", "site", "VARCHAR", "a.com")>>,
     <<InList("site", <<"a.com", "b.com">>)>>,
     <<Compare("COMPARE_NOTEQUAL", "site", "VARCHAR", "c.com"),
       Compare("COMPARE_EQUAL", "title", "VARCHAR", "x"),
       Compare("COMPARE_GREATERTHAN", "date", "TIMESTAMP", 1)>>}

Init ==
    /\ pc = "bound"
    /\ func \in {"google_search", "google_image_search"}
    /\ plan \in Plans
    /\ filters \in (IF func = "google_search" THEN FilterLists ELSE {<<>>})
    /\ max_results = DefaultMaxResults
    /\ site_includes = <<>>
    /\ site_excludes = <<>>
    /\ has_date_filter = FALSE
    /\ date_from = 0
    /\ date_to = 0
    /\ sort \in {"", "date-sdate:d"}
    /\ total_available = Arbitrary
    /\ Resolved
    /\ json_items = <<>>
    /\ NoCopy
    /\ FreshState

Next ==
    \/ GoogleSearchPushdownComplexFilter
    \/ WebSearchOptimizer
    \/ InitGlobal
    \/ FetchGoogleSearchResults
    \/ FetchGoogleImageSearchResults

Spec == Init /\ [][Next]_vars

(***************************************************************************)
(* GoogleSearchPushdownComplexFilter on its own, over every list of up to  *)
(* MaxFilters predicates drawn from Predicates, with the bind data as      *)
(* GoogleSearchBind leaves it.  LIKE with a constant pattern reaches the   *)
(* function as the planner has rewritten it: site LIKE '%.example.com' is  *)
(* suffix(site, '.example.com') and site LIKE 'docs.%' is                  *)
(* prefix(site, 'docs.'); the "~~" predicate is a LIKE left as it was.     *)
(***************************************************************************)
Function(fname, col, val) ==
    [cls |-> "BOUND_FUNCTION", etype |-> "BOUND_FUNCTION", fname |-> fname, col |-> col,
     args |-> <<Const("VARCHAR", val)>>]
NotInList(col, vals) == [InList(col, vals) EXCEPT !.etype = "COMPARE_NOT_IN"]
ColumnRef(ltype) == [is_const |-> FALSE, ltype |-> ltype, val |-> ""]

Predicates ==
    {Function("suffix", "site", ".example.com"),
     Function("prefix", "site", "docs."),
     Function("~~", "site", "%.example.com"),
     Compare("COMPARE_EQUAL", "site", "VARCHAR", "a.com"),
     Compare("COMPARE_NOTEQUAL", "site", "VARCHAR", "c.com"),
     InList("site", <<"a.com", "b.com">>),
     [InList("site", <<"a.com", "b.com">>) EXCEPT !.args[2] = ColumnRef("VARCHAR")],
     NotInList("site", <<"d.com", "e.com">>),
     Compare("COMPARE_GREATERTHANOREQUALTO", "date", "VARCHAR", "1970-01-02"),
     Compare("COMPARE_GREATERTHAN", "date", "TIMESTAMP", 7),
     Compare("COMPARE_LESSTHAN", "timestamp", "DATE", 3),
     Compare("COMPARE_LESSTHANOREQUALTO", "date", "VARCHAR", "1970-01-01 00:00:05"),
     Compare("COMPARE_GREATERTHAN", "date", "VARCHAR", "yesterday"),
     Compare("COMPARE_GREATERTHAN", "date", "INTEGER", 5),
     Compare("COMPARE_EQUAL", "title", "VARCHAR", "x")}

PredicateLists == UNION {[1..n -> Predicates] : n \in 0..MaxFilters}

InitFilter ==
    /\ pc = "bound"
    /\ func = "google_search"
    /\ plan = <<>>
    /\ filters \in PredicateLists
    /\ max_results = DefaultMaxResults
    /\ site_includes = <<>>
    /\ site_excludes = <<>>
    /\ has_date_filter = FALSE
    /\ date_from = 0
    /\ date_to = 0
    /\ sort = ""
    /\ total_available = Arbitrary
    /\ Resolved
    /\ json_items = <<>>
    /\ NoCopy
    /\ FreshState

SpecFilter == InitFilter /\ [][GoogleSearchPushdownComplexFilter]_vars

(***************************************************************************)
(* WebSearchOptimizer on its own, over every plan of up to MaxPlan         *)
(* operators above the scan drawn from PlanNodes, for both table functions *)
(* and with and without a sort named parameter.  LIMIT 15 OFFSET 20 is a   *)
(* limit node with limit_val 15 and offset_val 20.                         *)
(***************************************************************************)
PlanNodes ==
    {Limit("CONSTANT_VALUE", l) : l \in LimitValues}
    \cup {Limit("UNSET", 0), Limit("EXPRESSION_VALUE", 0), Limit("CONSTANT_PERCENTAGE", 0),
          [Limit("CONSTANT_VALUE", 15) EXCEPT !.offset = 20],
          Node("LOGICAL_PROJECTION"), Node("LOGICAL_FILTER"),
          OrderBy(<<Order(DateColumn, "ASCENDING")>>),
          OrderBy(<<Order(DateColumn, "DESCENDING")>>),
          OrderBy(<<Order(0, "DESCENDING")>>),
          OrderBy(<<Order(DateColumn, "DESCENDING"), Order(0, "ASCENDING")>>),
          OrderBy(<<[Order(DateColumn, "DESCENDING") EXCEPT !.is_colref = FALSE]>>),
          OrderBy(<<Order(DateColumn + 1, "DESCENDING")>>)}

PlanLists == UNION {[1..n -> PlanNodes] : n \in 0..MaxPlan}

InitOptimize ==
    /\ func \in {"google_search", "google_image_search"}
    /\ pc = IF func = "google_search" THEN "filtered" ELSE "bound"
    /\ plan \in PlanLists
    /\ filters = <<>>
    /\ max_results = DefaultMaxResults
    /\ site_includes \in {<<>>, <<"a.com">>}
    /\ site_excludes = <<>>
    /\ has_date_filter = FALSE
    /\ date_from = 0
    /\ date_to = 0
    /\ sort \in {"", "date-sdate:d"}
    /\ total_available = Arbitrary
    /\ Resolved
    /\ json_items = <<>>
    /\ NoCopy
    /\ FreshState

SpecOptimize == InitOptimize /\ [][WebSearchOptimizer]_vars

(***************************************************************************)
(* HttpClient::Fetch on its own: one call, with a URL, a RetryConfig and   *)
(* the outcomes of its http_get queries drawn from small sets.             *)
(***************************************************************************)
Body(kind, items, token, reason) ==
    [kind |-> kind, items |-> items, token |-> token, reason |-> reason]
Got(status, body, retry_after) ==
    [loaded |-> TRUE, failed |-> FALSE, status |-> status, body |-> body,
     retry_after |-> retry_after]
QueryFailed ==
    [loaded |-> TRUE, failed |-> TRUE, status |-> 0, body |-> NoBody, retry_after |-> ""]
LoadFailed ==
    [loaded |-> FALSE, failed |-> FALSE, status |-> 0, body |-> NoBody, retry_after |-> ""]

ErrorBody == Body("api_error", 0, NoToken, "quota exceeded")
RetryAfterValues == {"", "0", "2", "30", "abc", "-1", "3000000"}
Gets ==
    {LoadFailed, QueryFailed, Got(200, Body("ok", PageSize, 1 + PageSize, ""), "")}
    \cup {Got(status, ErrorBody, "") : status \in {301, 400, 401, 403, 500, 504, 505}}
    \cup {Got(429, ErrorBody, retry_after) : retry_after \in RetryAfterValues}
    \cup {Got(503, ErrorBody, "30")}

\* the RetryConfig of the fetch loops, one whose backoff reaches max_backoff_ms, and one
\* without retries
Configs ==
    {RetryConfig,
     [RetryConfig EXCEPT !.max_retries = 2, !.initial_backoff_ms = 8000],
     [RetryConfig EXCEPT !.max_retries = 0]}

InitTransport ==
    /\ pc = "http"
    /\ func = "google_search"
    /\ plan = <<>>
    /\ filters = <<>>
    /\ max_results = DefaultMaxResults
    /\ site_includes = <<>>
    /\ site_excludes = <<>>
    /\ has_date_filter = FALSE
    /\ date_from = 0
    /\ date_to = 0
    /\ sort = ""
    /\ total_available = Arbitrary
    /\ Resolved
    /\ json_items = <<>>
    /\ NoCopy
    /\ FreshState

HttpClientFetchCall ==
    /\ pc = "http"
    /\ pc' = "returned"
    /\ \E config \in Configs,
          url \in {BuildGoogleSearchUrl(1, "", FALSE), BuildGoogleImageSearchUrl(1 + PageSize)} :
          \E gets \in [1..(config.max_retries + 1) -> Gets] :
             \E out \in HttpClientFetch(url, config, gets) :
                fetched' = [url |-> url, config |-> config, gets |-> gets,
                            response |-> out.response, calls |-> out.calls,
                            waits |-> out.waits]
    /\ UNCHANGED <<bindVars, stateVars, error, message, envVars, recordVars, copyVars, histVars>>

SpecTransport == InitTransport /\ [][HttpClientFetchCall]_vars

(***************************************************************************)
(* The fetch loops over an upstream reached through HttpClient::Fetch: a   *)
(* scan with row cap ScanCap in single-query mode, or an image scan.       *)
(***************************************************************************)
InitScanHttp ==
    /\ pc = "fetch"
    /\ func \in {"google_search", "google_image_search"}
    /\ plan = <<>>
    /\ filters = <<>>
    /\ max_results = ScanCap
    /\ site_includes \in (IF func = "google_search" THEN {<<>>, <<"a.com">>} ELSE {<<>>})
    /\ site_excludes = <<>>
    /\ has_date_filter = FALSE
    /\ date_from = 0
    /\ date_to = 0
    /\ sort = ""
    /\ total_available = Flaky
    /\ Resolved
    /\ json_items = <<>>
    /\ NoCopy
    /\ FreshState

SpecScanHttp == InitScanHttp /\ [][NextFetch]_vars

(***************************************************************************)
(* A query from CREATE SECRET to the last row: the secret is created (or   *)
(* not), the scan is bound, its plan optimized, its pages fetched through  *)
(* HttpClient::Fetch and its records handed to the caller.                 *)
(***************************************************************************)
\* the named parameters of a CREATE SECRET statement and their values
OptionNames == {"key", "CX", "id"}
OptionValues == {"", "k"}
SecretOptions == UNION {[names -> OptionValues] : names \in SUBSET OptionNames}

\* StringUtil::Lower on the names above
Lower(name) == IF name = "CX" THEN "cx" ELSE name

\* the outcome of CreateGoogleSearchSecretFunction: the KeyValueSecret, or the message
\* of the InvalidInputException
CreateGoogleSearchSecretFunction(options) ==
    LET lower == {Lower(name) : name \in DOMAIN options}
        Value(lower_name) == options[CHOOSE name \in DOMAIN options : Lower(name) = lower_name]
    IN  IF lower \ {"key", "cx"} # {}
        THEN [threw |-> TRUE, secret |-> NoSecret,
              text |-> "Unknown parameter for google_search secret: '%s'. Expected: key, cx"]
        ELSE IF "key" \notin lower
        THEN [threw |-> TRUE, secret |-> NoSecret,
              text |-> "google_search secret requires 'key' parameter (API key)"]
        ELSE IF "cx" \notin lower
        THEN [threw |-> TRUE, secret |-> NoSecret,
              text |-> "google_search secret requires 'cx' parameter (Search Engine ID)"]
        ELSE [threw |-> FALSE, secret |-> Secret(Value("key"), Value("cx")), text |-> ""]

\* CREATE SECRET (TYPE google_search, ...) while no such secret is stored: a statement
\* of its own, whose exception does not reach the scan
CreateSecret ==
    /\ pc = "start"
    /\ ~secret.stored
    /\ \E options \in SecretOptions :
          secret' = CreateGoogleSearchSecretFunction(options).secret
    /\ UNCHANGED <<pc, bindVars, stateVars, error, message, total_available, now, httpVars, recordVars, copyVars,
                   histVars>>

GetConfigMutEmptyConfig(s) == [threw |-> FALSE, api_key |-> s.key, cx |-> s.cx]

\* GetGoogleSearchConfigFromSecret: throws without a match of LookupSecret; a match
\* has type google_search, the type looked up, and its secret_map holds key and cx
GetGoogleSearchConfigFromSecret(s) ==
    IF ~s.stored
    THEN [threw |-> TRUE, api_key |-> "", cx |-> ""]
    ELSE [threw |-> FALSE, api_key |-> s.key, cx |-> s.cx]

NoSecretFound == "No google_search secret found. Create one with: ..."

\* the sort named parameter of the call
NamedSorts == {"", "date:d"}

\* GoogleSearchBind / GoogleImageSearchBind, called with the query the function's
\* signature requires
GoogleSearchBind ==
    /\ pc = "start"
    /\ LET config == GetGoogleSearchConfigFromSecret(secret)
       IN  IF config.threw
           THEN /\ pc' = "failed"
                /\ error' = "no_secret"
                /\ message' = Message("InvalidInputException", NoSecretFound, NoError, 0)
                /\ UNCHANGED bindVars
           ELSE /\ pc' = "bound"
                /\ api_key' = config.api_key
                /\ cx' = config.cx
                /\ sort' \in (IF func = "google_search" THEN NamedSorts ELSE {""})
                /\ UNCHANGED <<func, plan, filters, max_results, site_includes,
                               site_excludes, has_date_filter, date_from, date_to,
                               error, message>>
    /\ UNCHANGED <<stateVars, envVars, httpVars, recordVars, copyVars, histVars>>

\* GoogleSearchScan / GoogleImageSearchScan: one call fills one chunk; the caller
\* stops at an empty chunk
GoogleSearchScan ==
    /\ pc = "complete"
    /\ LET count == Min(STANDARD_VECTOR_SIZE, results_size - current_idx)
       IN  /\ current_idx' = current_idx + count
           /\ pc' = IF count = 0 THEN "done" ELSE "complete"
    /\ UNCHANGED <<bindVars, results_size, next_start, fetch_complete, site_states,
                   current_site_idx, error, message, envVars, httpVars, recordVars, copyVars, histVars>>

QueryPlans == {<<Limit("CONSTANT_VALUE", ScanCap), Node("LOGICAL_PROJECTION")>>}
QueryFilters == {<<>>, <<Compare("COMPARE_EQUAL", "site", "VARCHAR", "a.com")>>}

InitQuery ==
    /\ pc = "start"
    /\ func \in {"google_search", "google_image_search"}
    /\ plan \in QueryPlans
    /\ filters \in (IF func = "google_search" THEN QueryFilters ELSE {<<>>})
    /\ max_results = DefaultMaxResults
    /\ site_includes = <<>>
    /\ site_excludes = <<>>
    /\ has_date_filter = FALSE
    /\ date_from = 0
    /\ date_to = 0
    /\ sort = ""
    /\ secret = NoSecret
    /\ api_key = ""
    /\ cx = ""
    /\ total_available = Flaky
    /\ json_items = <<>>
    /\ NoCopy
    /\ FreshState

NextQuery ==
    \/ CreateSecret
    \/ GoogleSearchBind
    \/ GoogleSearchPushdownComplexFilter
    \/ WebSearchOptimizer
    \/ InitGlobal
    \/ FetchGoogleSearchResults
    \/ FetchGoogleImageSearchResults
    \/ GoogleSearchScan

SpecQuery == InitQuery /\ [][NextQuery]_vars

(***************************************************************************)
(* Scans whose predicates are comparisons on the date column: bind_data is *)
(* value-initialized by make_uniq<GoogleSearchBindData>(), which leaves 0  *)
(* in date_from and date_to until a comparison is absorbed.                *)
(***************************************************************************)
DatePredicates ==
    {Compare("COMPARE_GREATERTHANOREQUALTO", "date", "VARCHAR", "1970-01-02"),
     Compare("COMPARE_GREATERTHAN", "date", "TIMESTAMP", 7),
     Compare("COMPARE_GREATERTHAN", "date", "TIMESTAMP", 0),
     Compare("COMPARE_LESSTHAN", "timestamp", "DATE", 3),
     Compare("COMPARE_LESSTHANOREQUALTO", "date", "VARCHAR", "1970-01-01 00:00:05"),
     Compare("COMPARE_LESSTHAN", "date", "TIMESTAMP", 0),
     Compare("COMPARE_EQUAL", "title", "VARCHAR", "x")}

DatePredicateLists == UNION {[1..n -> DatePredicates] : n \in 0..2}

InitDateScan ==
    /\ pc = "bound"
    /\ func \in {"google_search", "google_image_search"}
    /\ plan = <<>>
    /\ filters \in (IF func = "google_search" THEN DatePredicateLists ELSE {<<>>})
    /\ max_results = DefaultMaxResults
    /\ site_includes = <<>>
    /\ site_excludes = <<>>
    /\ has_date_filter = FALSE
    /\ date_from = 0
    /\ date_to = 0
    /\ sort = ""
    /\ total_available \in {0, PageSize + PartialPage}
    /\ Resolved
    /\ json_items = <<>>
    /\ NoCopy
    /\ FreshState

SpecDateScan == InitDateScan /\ [][Next]_vars

(***************************************************************************)
(* The records field by field.                                             *)
(*                                                                         *)
(* The fetch loops above count the records; here one response's items are  *)
(* followed from the JSON array to the rows of the chunk.  A link is the   *)
(* sequence of its characters; of the string fields copied as they are     *)
(* only link is kept.                                                      *)
(***************************************************************************)
\* std::string::find: the position (from 0) of the first occurrence of pat at or after
\* from, -1 (npos) when there is none
StrFind(str, pat, from) ==
    LET hits == {i \in from..(Len(str) - Len(pat)) :
                    SubSeq(str, i + 1, i + Len(pat)) = pat}
    IN  IF hits = {} THEN -1 ELSE CHOOSE i \in hits : \A k \in hits : i <= k

\* std::string::substr(pos, n)
SubStr(str, pos, n) == SubSeq(str, pos + 1, pos + n)

ExtractDomain(url) ==
    LET protocol_end == StrFind(url, <<":", "/", "/">>, 0)
        start == IF protocol_end # -1 THEN protocol_end + 3 ELSE 0
        found == StrFind(url, <<"/">>, start)
        end == IF found = -1 THEN Len(url) ELSE found
    IN  SubStr(url, start, end - start)

\* the record ParseGoogleSearchResponse builds from one item: date is default-constructed
\* and never assigned
GoogleSearchResult(item) ==
    [link |-> item.link, site |-> ExtractDomain(item.link), date |-> ""]

\* the item loop of ParseGoogleSearchResponse: stops at the cap
RECURSIVE PushItems(_, _)
PushItems(recs, its) ==
    IF its = <<>> \/ Len(recs) >= max_results
    THEN recs
    ELSE PushItems(Append(recs, GoogleSearchResult(Head(its))), Tail(its))

ParseGoogleSearchItems ==
    /\ pc = "fetch"
    /\ results' = PushItems(results, json_items)
    /\ results_size' = Len(results')
    /\ pc' = "complete"
    /\ UNCHANGED <<bindVars, next_start, fetch_complete, site_states, current_site_idx,
                   current_idx, error, message, envVars, httpVars, json_items, output,
                   copyVars, histVars>>

\* a duckdb Value holding a string, and the NULL Value()
StringValue(v) == [is_null |-> FALSE, v |-> v]
NullValue == [is_null |-> TRUE]

\* the columns of one row GoogleSearchScan writes (1 link, 11 site, 12 date)
Row(result) ==
    [link |-> StringValue(result.link),
     site |-> StringValue(result.site),
     date |-> IF result.date = "" THEN NullValue ELSE StringValue(result.date)]

\* GoogleSearchScan with the rows it writes
GoogleSearchScanRows ==
    /\ pc = "complete"
    /\ LET count == Min(STANDARD_VECTOR_SIZE, Len(results) - current_idx)
       IN  /\ output' = [i \in 1..count |-> Row(results[current_idx + i])]
           /\ current_idx' = current_idx + count
           /\ pc' = IF count = 0 THEN "done" ELSE "complete"
    /\ UNCHANGED <<bindVars, results_size, next_start, fetch_complete, site_states,
                   current_site_idx, error, message, envVars, httpVars, json_items, results,
                   copyVars, histVars>>

\* "http://a.co"
PlainLink == <<"h", "t", "t", "p", ":", "/", "/", "a", ".", "c", "o">>

\* links of the items: with a path, bare, with a port, with a query and no path, absent
Links ==
    {PlainLink \o <<"/", "p">>,
     PlainLink,
     PlainLink \o <<":", "8", "/", "p">>,
     PlainLink \o <<"?", "q">>,
     <<>>}

\* the items upstream can send: any link, with or without a date of the page
JsonItems == [link : Links, date : {"", "2024-01-01"}]

MaxItems == 2
MaxWorkers == 2
MaxRows == 2

RecordCaps == {1, DefaultMaxResults}

InitRecord ==
    /\ pc = "fetch"
    /\ func = "google_search"
    /\ plan = <<>>
    /\ filters = <<>>
    /\ max_results \in RecordCaps
    /\ site_includes = <<>>
    /\ site_excludes = <<>>
    /\ has_date_filter = FALSE
    /\ date_from = 0
    /\ date_to = 0
    /\ sort = ""
    /\ total_available = Arbitrary
    /\ Resolved
    /\ json_items \in UNION {[1..n -> JsonItems] : n \in 0..MaxItems}
    /\ NoCopy
    /\ FreshState

NextRecord == ParseGoogleSearchItems \/ GoogleSearchScanRows

SpecRecord == InitRecord /\ [][NextRecord]_vars

(***************************************************************************)
(* The annotation writer: COPY ... TO file (FORMAT google_pse_annotation). *)
(*                                                                         *)
(* Every worker of the COPY calls AnnotationCopySink with its chunk; the   *)
(* calls share one AnnotationCopyGlobalState.  A call is followed in       *)
(* steps (take the lock; examine a row; write its block), so that what     *)
(* the lock keeps apart is visible.  Strings are kept by their sizes: a    *)
(* string is [valid, plain, amp], NULL when not valid, with amp '&'        *)
(* characters and plain characters XmlEscape copies as they are.           *)
(***************************************************************************)
MAX_ANNOTATIONS == 5000
MAX_FILE_SIZE_BYTES == 30 * 1024

header == "<?xml version=\"1.0\" encoding=\"UTF-8\"?>\n<Annotations>\n"
footer == "</Annotations>\n"

Text(plain, amp) == [valid |-> TRUE, plain |-> plain, amp |-> amp]
NullText == [valid |-> FALSE, plain |-> 0, amp |-> 0]

\* XmlEscape(input).size(): '&' becomes "&amp;"
XmlEscapeSize(input) == input.plain + Len("&amp;") * input.amp

\* StringUtil::Lower of an action
LowerAction(action) == IF action = "Exclude" THEN "exclude" ELSE action

\* a score in tenths, valid or NULL
Score(tenths) == [valid |-> TRUE, tenths |-> tenths]
NullScore == [valid |-> FALSE, tenths |-> 0]

\* snprintf("%.1f") of a score between -9.9 and 9.9
ScoreBufSize(tenths) == IF tenths < 0 THEN Len("-0.0") ELSE Len("0.0")

\* xml.size() of the block AnnotationCopySink builds for a row
XmlSize(row) ==
    LET label_name == IF LowerAction(row.action.text) = "include" THEN "_include_"
                      ELSE "_exclude_"
        score_attr == IF row.score.valid
                      THEN Len(" score=\"") + ScoreBufSize(row.score.tenths) + Len("\"")
                      ELSE 0
        comment == IF row.comment.valid /\ row.comment.plain + row.comment.amp > 0
                   THEN Len("    <Comment>") + XmlEscapeSize(row.comment) + Len("</Comment>\n")
                   ELSE 0
    IN  Len("  <Annotation about=\"") + XmlEscapeSize(row.url) + Len("\"") + score_attr
            + Len(">\n")
        + Len("    <Label name=\"") + Len(label_name) + Len("\"/>\n")
        + comment
        + Len("  </Annotation>\n")

Piece(kind, size, by) == [kind |-> kind, size |-> size, by |-> by]

\* AnnotationCopyInitializeGlobal: the file holds the header
InitializeGlobal ==
    [handle |-> [pieces |-> <<Piece("header", Len(header), 0)>>, closed |-> FALSE],
     lock |-> {},
     annotation_count |-> 0,
     bytes_written |-> Len(header)]

\* lock_guard<mutex>: the constructor returns when no thread holds the mutex
MutexFreeMutNoLock(lock) == TRUE

MutexFree(lock) == lock = {}

\* the test of the file size before a block is written
FileSizeExceeded(bytes_written, size) ==
    bytes_written + size + 15 > MAX_FILE_SIZE_BYTES

\* what AnnotationCopySink does with one row, from the checks before the write
RowOutcome(row) ==
    IF gstate.annotation_count >= MAX_ANNOTATIONS
    THEN [do |-> "throw",
          text |-> "Google PSE annotation limit exceeded: maximum %d annotations allowed"]
    ELSE IF ~row.url.valid \/ ~row.action.valid
    THEN [do |-> "continue", text |-> ""]
    ELSE IF LowerAction(row.action.text) \notin {"include", "exclude"}
    THEN [do |-> "throw", text |-> "Invalid action '%s'. Must be 'include' or 'exclude'"]
    ELSE IF row.score.valid /\ (row.score.tenths < -10 \/ row.score.tenths > 10)
    THEN [do |-> "throw", text |-> "Invalid score %.2f. Must be between -1.0 and 1.0"]
    ELSE IF FileSizeExceeded(gstate.bytes_written, XmlSize(row))
    THEN [do |-> "throw",
          text |-> "Google PSE annotation file size limit exceeded: maximum %d bytes allowed"]
    ELSE [do |-> "write", text |-> ""]

Workers == 1..MaxWorkers

\* AnnotationCopySink, entry: the lock is taken for the whole call
SinkEnter(w) ==
    /\ pc = "sink"
    /\ sinks[w].pc = "idle"
    /\ MutexFree(gstate.lock)
    /\ gstate' = [gstate EXCEPT !.lock = @ \cup {w}]
    /\ sinks' = [sinks EXCEPT ![w].pc = "row"]
    /\ UNCHANGED <<pc, bindVars, stateVars, error, message, envVars, httpVars, recordVars,
                   histVars>>

\* AnnotationCopySink, the loop test and the checks of one row; the call returns or
\* throws with the lock released by the guard's destructor
SinkRow(w) ==
    /\ sinks[w].pc = "row"
    /\ LET call == sinks[w]
       IN  IF call.row_idx >= Len(call.input)
           THEN /\ sinks' = [sinks EXCEPT ![w].pc = "returned"]
                /\ gstate' = [gstate EXCEPT !.lock = @ \ {w}]
                /\ UNCHANGED <<pc, error, message>>
           ELSE LET row == call.input[call.row_idx + 1]
                    outcome == RowOutcome(row)
                IN  CASE outcome.do = "throw" ->
                           /\ sinks' = [sinks EXCEPT ![w].pc = "thrown"]
                           /\ gstate' = [gstate EXCEPT !.lock = @ \ {w}]
                           /\ pc' = "failed"
                           /\ error' = "InvalidInputException"
                           /\ message' = Message("InvalidInputException", outcome.text,
                                                 NoError, 0)
                      [] outcome.do = "continue" ->
                           /\ sinks' = [sinks EXCEPT ![w].row_idx = @ + 1]
                           /\ UNCHANGED <<gstate, pc, error, message>>
                      [] outcome.do = "write" ->
                           /\ sinks' = [sinks EXCEPT ![w].pc = "write",
                                                     ![w].xml = XmlSize(row)]
                           /\ UNCHANGED <<gstate, pc, error, message>>
    /\ UNCHANGED <<bindVars, stateVars, envVars, httpVars, recordVars, histVars>>

\* AnnotationCopySink, the write of one block and the two counters
SinkWrite(w) ==
    /\ sinks[w].pc = "write"
    /\ gstate' = [gstate EXCEPT
                     !.handle.pieces = Append(@, Piece("annotation", sinks[w].xml, w)),
                     !.bytes_written = @ + sinks[w].xml,
                     !.annotation_count = @ + 1]
    /\ sinks' = [sinks EXCEPT ![w].pc = "row", ![w].row_idx = @ + 1, ![w].xml = 0]
    /\ UNCHANGED <<pc, bindVars, stateVars, error, message, envVars, httpVars, recordVars,
                   histVars>>

AnnotationCopySink == \E w \in Workers : SinkEnter(w) \/ SinkRow(w) \/ SinkWrite(w)

\* AnnotationCopyFinalize: called once every Sink call has returned; takes the lock,
\* writes the closing tag, closes the file
AnnotationCopyFinalize ==
    /\ pc = "sink"
    /\ \A w \in Workers : sinks[w].pc = "returned"
    /\ MutexFree(gstate.lock)
    /\ gstate' = [gstate EXCEPT
                     !.handle.pieces = Append(@, Piece("footer", Len(footer), 0)),
                     !.handle.closed = TRUE]
    /\ pc' = "finalized"
    /\ UNCHANGED <<bindVars, stateVars, error, message, envVars, httpVars, recordVars, sinks,
                   histVars>>

\* a row: url_pattern, action, comment, score
CopyRow(url, action, comment, score) ==
    [url |-> url, action |-> [valid |-> TRUE, text |-> action], comment |-> comment,
     score |-> score]

\* the length of a url_pattern whose block, without score and comment, fills half of what
\* a file can hold between the header and the closing tag
HalfFileUrl ==
    (MAX_FILE_SIZE_BYTES - Len(header) - Len(footer)) \div 2
        - XmlSize(CopyRow(Text(0, 0), "exclude", NullText, NullScore))

\* the rows of the chunks: a short one with a score and a comment; two long ones, of which
\* the first fits twice into a file and the second does not; a NULL url_pattern; an
\* action that is neither include nor exclude; a score out of range
CopyRows ==
    {CopyRow(Text(2, 1), "include", Text(3, 0), Score(5)),
     CopyRow(Text(HalfFileUrl, 0), "Exclude", NullText, NullScore),
     CopyRow(Text(HalfFileUrl + 1, 0), "exclude", Text(0, 0), NullScore),
     CopyRow(NullText, "include", NullText, NullScore),
     CopyRow(Text(1, 0), "allow", NullText, NullScore),
     CopyRow(Text(1, 0), "include", NullText, Score(20))}

Chunks == UNION {[1..n -> CopyRows] : n \in 0..MaxRows}

InitCopy ==
    /\ pc = "sink"
    /\ func = "google_search"
    /\ plan = <<>>
    /\ filters = <<>>
    /\ max_results = DefaultMaxResults
    /\ site_includes = <<>>
    /\ site_excludes = <<>>
    /\ has_date_filter = FALSE
    /\ date_from = 0
    /\ date_to = 0
    /\ sort = ""
    /\ total_available = Arbitrary
    /\ Resolved
    /\ json_items = <<>>
    /\ gstate = InitializeGlobal
    /\ sinks \in [Workers -> {[pc |-> "idle", input |-> c, row_idx |-> 0, xml |-> 0] :
                                  c \in Chunks}]
    /\ FreshState

NextCopy == AnnotationCopySink \/ AnnotationCopyFinalize

SpecCopy == InitCopy /\ [][NextCopy]_vars

(***************************************************************************)
(* Properties.                                                             *)
(***************************************************************************)
\* a request was issued in this step
Requested == requests' = requests + 1

\* the cursor the last request belongs to is finished
LastCursorDone ==
    IF last.site_idx >= 0 THEN site_states[last.site_idx].exhausted ELSE fetch_complete

CombinedMode == func = "google_search" /\ ~UsePerSiteQueries

\* the plan is LIMIT <constant> directly above the scan, through projections only
DirectConstantLimit ==
    /\ Len(plan) >= 1
    /\ plan[1].type = "LOGICAL_LIMIT"
    /\ plan[1].limit_type = "CONSTANT_VALUE"
    /\ \A i \in 2..Len(plan) : plan[i].type = "LOGICAL_PROJECTION"

CeilDiv(a, b) == (a + b - 1) \div b

\* C1: in every state of a fetch phase (single query, per site, image search) the
\* accumulator holds at most max_results records, and no request is issued when it
\* already holds max_results.
C1_CapNeverExceeded ==
    /\ results_size <= max_results
    /\ [][/\ results_size' <= max_results'
          /\ Requested => results_size < max_results]_vars

\* C1 witness: a fetch phase ended at the cap after a page was cut short.
C1_PageCutAtCap ==
    /\ pc = "complete"
    /\ max_results > 0
    /\ results_size = max_results
    /\ served > max_results

\* C2: max_results is at most 100 in every state; it is the default 100 until the
\* optimizer ran, and min(L, 100) after it ran over LIMIT L directly above the scan.
C2_RowCapAtMost100 ==
    /\ max_results <= 100
    /\ pc \in {"bound", "filtered"} => max_results = 100
    /\ (pc \notin {"bound", "filtered"} /\ DirectConstantLimit)
          => max_results = Min(plan[1].limit_value, 100)

\* C2 witness: a scan with predicates absorbed and LIMIT 150 pushed down fetched with
\* row cap 100.
C2_LargeLimitClamped ==
    /\ pc = "complete"
    /\ DirectConstantLimit
    /\ plan[1].limit_value > 100
    /\ NumSites = 2
    /\ max_results = 100
    /\ results_size = 100

\* C3 (as claimed): when the caller asks for more than 100 rows and at least two sites
\* are included, every request of the fetch phase is a per-site request, and at most
\* the requested number of records is accumulated.
C3_PerSiteForLargeLimit ==
    (/\ pc \in {"fetch", "complete"}
     /\ func = "google_search"
     /\ DirectConstantLimit
     /\ plan[1].limit_value > 100
     /\ NumSites >= 2)
    => /\ requests > 0 => last.site_idx \in SiteIdx
       /\ results_size <= plan[1].limit_value

\* C4: against a faithful upstream holding total_available results, the single-query
\* loop with 1 <= max_results <= 100 and one included site ends with exactly
\* min(max_results, total_available) records after at most ceil(max_results / 10)
\* requests, and after exactly that many when every page was full and had a token.
C4_CombinedPaging ==
    (pc = "complete" /\ max_results >= 1 /\ max_results <= 100 /\ NumSites = 1)
    => /\ results_size = Min(max_results, total_available)
       /\ requests <= CeilDiv(max_results, PageSize)
       /\ full_pages => requests = CeilDiv(max_results, PageSize)

\* C4 witness: row cap 95 filled by ten pages, the last one cut.
C4_TenFullPages ==
    /\ pc = "complete"
    /\ max_results = 95
    /\ full_pages
    /\ requests = 10
    /\ results_size = 95
    /\ last.start = 91

\* C5: in single-query mode the first request starts at 1 and every later request
\* starts at the continuation index parsed from the response before it; with row cap
\* 15 and no filters the loop ends with min(15, items returned) records, after exactly
\* two requests when the pages are full.
C5_StartFollowsToken ==
    [][/\ (CombinedMode /\ Requested)
             => last'.start = (IF requests = 0 THEN 1 ELSE last.parsed)
       /\ (CombinedMode /\ max_results = 15 /\ NumSites = 0 /\ pc' = "complete")
             => /\ results_size' = Min(15, served')
                /\ full_pages' => requests' = 2]_vars

\* C5 witness: row cap 15, no sites: two full pages, requested at 1 and at 11.
C5_TwoRequests ==
    /\ pc = "complete"
    /\ CombinedMode
    /\ max_results = 15
    /\ NumSites = 0
    /\ full_pages
    /\ requests = 2
    /\ last.start = 11
    /\ results_size = 15

\* C6 (as claimed): in google_search a cursor whose stored next start index is 100 or
\* more is finished, as is a cursor whose last response had no items or no token, and
\* no request carries a start index of 100 or more.
C6_StoredStartBelowLimit ==
    (func = "google_search" /\ pc \in {"fetch", "complete"})
    => /\ last.start < MaxStartIndex
       /\ IF UsePerSiteQueries
          THEN \A i \in SiteIdx :
                  site_states[i].next_start >= MaxStartIndex => site_states[i].exhausted
          ELSE next_start >= MaxStartIndex => fetch_complete
       /\ (requests > 0 /\ last.parsed = NoToken) => LastCursorDone

\* C7: in google_search a request whose start index is exactly 100 finishes its cursor
\* when the response is processed, token or not, and the next request of the scan, if
\* any, belongs to another partition.
C7_StartAtLimitFinishes ==
    [][/\ (func = "google_search" /\ Requested /\ last'.start = MaxStartIndex
             /\ pc' # "failed") => LastCursorDone'
       /\ (func = "google_search" /\ Requested /\ last.start = MaxStartIndex)
             => (last'.site_idx >= 0 /\ last'.site_idx # last.site_idx)]_vars

\* C7 witness: a partition was requested at start index 100, its response carried a
\* token, and the partition is exhausted.
C7_TokenAtLimitIgnored ==
    /\ func = "google_search"
    /\ last.site_idx >= 0
    /\ last.start = MaxStartIndex
    /\ last.parsed # NoToken
    /\ site_states[last.site_idx].exhausted

\* C8: an exhausted partition stays exhausted and is not requested again; once the
\* single query is complete, or the scan is complete or failed, no request is issued.
C8_ExhaustionAbsorbing ==
    [][/\ \A i \in DOMAIN site_states :
             site_states[i].exhausted
                => /\ pc' # "failed" => site_states'[i].exhausted
                   /\ Requested => last'.site_idx # i
       /\ (fetch_complete \/ pc \in {"complete", "failed"}) => ~Requested
       /\ (fetch_complete /\ pc' # "failed") => fetch_complete']_vars

\* C8 witness: the second site was requested twice in a row while the first site
\* stayed exhausted.
C8_OtherSiteContinues ==
    /\ UsePerSiteQueries
    /\ pc = "fetch"
    /\ site_states[0].exhausted
    /\ ~site_states[1].exhausted
    /\ since[0][1] = 2

\* C9: the first per-site request goes to the first included site; between two
\* consecutive requests to one partition every other partition is requested at most
\* once, and exactly once if it is not exhausted; with two sites the requests
\* alternate while both are live.
C9_RoundRobin ==
    [][\A j \in SiteIdx :
          (UsePerSiteQueries /\ Requested /\ last'.site_idx = j)
             => /\ requests = 0 => j = 0
                /\ visited[j] => \A k \in SiteIdx \ {j} :
                                    /\ since[j][k] <= 1
                                    /\ ~site_states[k].exhausted => since[j][k] = 1
                /\ (NumSites = 2 /\ requests > 0
                       /\ \A k \in SiteIdx : ~site_states[k].exhausted)
                      => last.site_idx # j]_vars

\* C9 witness: three sites, the second exhausted: the first site is requested again
\* right after the third.
C9_SkipsExhausted ==
    /\ NumSites = 3
    /\ pc = "fetch"
    /\ last.site_idx = 0
    /\ site_states[1].exhausted
    /\ ~site_states[2].exhausted
    /\ since[2][0] = 1
    /\ since[1][2] = 2

\* C10: every fetch phase ends, complete or failed, whatever the upstream answers;
\* every iteration of a fetch loop that issues a request appends a record, finishes a
\* cursor or fails; a fetch phase that has not ended can take a step; the requests of
\* a scan number at most max_results plus the number of partitions; the per-site loop
\* ends only at the row cap or with every partition exhausted.
C10_FetchTerminates ==
    /\ <>(pc \in {"complete", "failed"})
    /\ [](pc = "fetch" => ENABLED NextFetch)
    /\ [](requests <= max_results + NumSites)
    /\ []((pc = "complete" /\ func = "google_search" /\ UsePerSiteQueries)
             => \/ results_size >= max_results
                \/ \A i \in SiteIdx : site_states[i].exhausted)
    /\ [][Requested
             => \/ results_size' > results_size
                \/ pc' = "failed"
                \/ fetch_complete' /\ ~fetch_complete
                \/ \E i \in DOMAIN site_states :
                      site_states'[i].exhausted /\ ~site_states[i].exhausted]_vars

\* C10 witness: a single-query fetch phase that followed a repeated or backward token
\* (a later request started at 1 again, and its response repeated the token) has ended
\* at the row cap.
C10_EndsDespiteRepeatedToken ==
    /\ pc = "complete"
    /\ requests > 2
    /\ last.site_idx = -1
    /\ last.start = 1
    /\ last.parsed = 1
    /\ results_size = max_results

\* the clauses of a query text that name an included site
SiteSyntax == {"(", "site:", "OR", ")"}

\* the values of the clauses of kind t in query text q, in order
ClauseValues(q, t) ==
    LET OfKind(c) == c.t = t
        sel == SelectSeq(q, OfKind)
    IN  [i \in DOMAIN sel |-> sel[i].v]

\* a URL has been built
Built == last.url # NoUrl

\* C11: the mode of a google_search scan never changes; every per-site request carries
\* its site in siteSearch (with siteSearchFilter=i), was built with use_or_sites false
\* and has no included-site clause in its query text; every single-query request has
\* no siteSearch parameter; consecutive requests of a scan are of the same kind.
C11_ModesNeverMix ==
    /\ [](requests > 0 =>
            IF UsePerSiteQueries
            THEN /\ last.site_idx \in SiteIdx
                 /\ last.url.siteSearch = site_includes[last.site_idx + 1]
                 /\ last.url.siteSearchFilter = "i"
                 /\ ~last.use_or_sites
                 /\ \A i \in DOMAIN last.url.q : last.url.q[i].t \notin SiteSyntax
            ELSE /\ last.site_idx = -1
                 /\ last.url.siteSearch = ""
                 /\ last.url.siteSearchFilter = "")
    /\ [][/\ UsePerSiteQueries' = UsePerSiteQueries
          /\ (Requested /\ requests > 0)
                => (last'.url.siteSearch = "") = (last.url.siteSearch = "")]_vars

\* C11 witness: the second request of a per-site scan went to the second site, through
\* siteSearch, while the site exclusions stayed in the query text.
C11_SecondSiteRestricted ==
    /\ UsePerSiteQueries
    /\ requests = 2
    /\ last.url.siteSearch = "b.com"
    /\ last.url.q = <<Clause("text", Query), Clause("-site:", "x.com")>>

\* C12 (as claimed): every single-query request is built with use_or_sites equal to
\* (number of included sites > 1).
C12_FlagIffManySites ==
    (func = "google_search" /\ requests > 0 /\ ~UsePerSiteQueries)
    => last.use_or_sites = (NumSites > 1)

\* C12 (amended): every single-query request is built with use_or_sites equal to
\* (number of included sites >= 1), so that one included site reaches the query text.
C12_FlagIffAnySite ==
    (func = "google_search" /\ requests > 0 /\ ~UsePerSiteQueries)
    => /\ last.use_or_sites = (NumSites >= 1)
       /\ NumSites = 1 => last.url.q[2] = Clause("site:", site_includes[1])

\* C12 witness: a single-query request for one included site, built with the flag set.
C12_OneSiteFlagSet ==
    /\ requests > 0
    /\ ~UsePerSiteQueries
    /\ NumSites = 1
    /\ last.use_or_sites
    /\ last.url.siteSearch = ""

\* C13: the included-site part of the query text (between the caller's text and the
\* exclusions) is, with use_or_sites and k >= 2 sites, "(" site:s1 OR ... OR site:sk ")"
\* in stored order; with use_or_sites and one site, site:s1 alone; otherwise empty.
C13_IncludeClause ==
    Built =>
       LET q == last.url.q
           k == NumSites
           inc == SubSeq(q, 2, Len(q) - Len(site_excludes))
       IN  /\ q[1] = Clause("text", Query)
           /\ (last.use_or_sites /\ k >= 2) =>
                 /\ Len(inc) = 2 * k + 1
                 /\ inc[1] = Clause("(", "")
                 /\ inc[2 * k + 1] = Clause(")", "")
                 /\ \A i \in 1..k : inc[2 * i] = Clause("site:", site_includes[i])
                 /\ \A i \in 1..(k - 1) : inc[2 * i + 1] = Clause("OR", "")
           /\ (last.use_or_sites /\ k = 1) => inc = <<Clause("site:", site_includes[1])>>
           /\ (~last.use_or_sites \/ k = 0) => inc = <<>>

\* C13 witness: three included sites in one disjunction, followed by an exclusion.
C13_ThreeSitesOneClause ==
    /\ pc = "compile"
    /\ last.use_or_sites
    /\ ClauseValues(last.url.q, "site:") = <<"a.com", "b.com", "c.com">>
    /\ Len(last.url.q) = 9
    /\ last.url.q[9] = Clause("-site:", "x.com")

\* C14: the query text of every google_search request, single-query or per-site, has
\* exactly the clauses -site:x for the excluded sites x, in stored order, at its end.
C14_ExcludesAlways ==
    (func = "google_search" /\ requests > 0)
    => LET q == last.url.q
           n == Len(site_excludes)
       IN  /\ ClauseValues(q, "-site:") = site_excludes
           /\ Len(q) >= n
           /\ \A i \in 1..n : q[Len(q) - n + i] = Clause("-site:", site_excludes[i])

\* C14 witness: a per-site request whose query text carries two exclusions.
C14_PerSiteWithTwoExcludes ==
    /\ UsePerSiteQueries
    /\ requests > 0
    /\ last.url.siteSearch = "a.com"
    /\ last.url.q = <<Clause("text", Query), Clause("-site:", "x.com"),
                      Clause("-site:", "y.com")>>

\* the least n with n * b >= a
Ceil(a, b) == CHOOSE n \in 0..a : n * b >= a /\ (n - 1) * b < a

C16_SameRequestSameUrl ==
    [][(pc = "compile" /\ Built /\ last'.start = last.start
          /\ last'.site_filter = last.site_filter
          /\ last'.use_or_sites = last.use_or_sites)
       => last'.url = last.url]_vars

(***************************************************************************)
(* Filter pushdown.                                                        *)
(***************************************************************************)
\* GoogleSearchPushdownComplexFilter has run and returned
Absorbed == pc = "bound" /\ pc' = "filtered"

Occurs(fs, f) == \E i \in DOMAIN fs : fs[i] = f
IsSitePredicate(f, cls, etype) == f.cls = cls /\ f.etype = etype /\ f.col = "site"
StringLiterals(f) ==
    \A j \in DOMAIN f.args : f.args[j].is_const /\ f.args[j].ltype = "VARCHAR"
Literals(f) == [j \in DOMAIN f.args |-> f.args[j].val]

\* C17: absorbing site LIKE '%.example.com' adds the included-site pattern
\* 'example.com' and removes the predicate from the residual list.
C17_SuffixStripped ==
    [][Absorbed /\ Occurs(filters, Function("suffix", "site", ".example.com"))
         => /\ Occurs(site_includes', "example.com")
            /\ ~Occurs(filters', Function("suffix", "site", ".example.com"))]_vars

\* the patterns C18 has a predicate contribute
C18Includes(f) ==
    IF /\ \/ IsSitePredicate(f, "BOUND_COMPARISON", "COMPARE_EQUAL")
          \/ IsSitePredicate(f, "BOUND_OPERATOR", "COMPARE_IN")
       /\ StringLiterals(f)
    THEN Literals(f) ELSE <<>>
C18Excludes(f) ==
    IF IsSitePredicate(f, "BOUND_COMPARISON", "COMPARE_NOTEQUAL") /\ StringLiterals(f)
    THEN Literals(f) ELSE <<>>
RECURSIVE C18AllIncludes(_)
C18AllIncludes(fs) ==
    IF fs = <<>> THEN <<>> ELSE C18Includes(Head(fs)) \o C18AllIncludes(Tail(fs))
RECURSIVE C18AllExcludes(_)
C18AllExcludes(fs) ==
    IF fs = <<>> THEN <<>> ELSE C18Excludes(Head(fs)) \o C18AllExcludes(Tail(fs))
C18Stays(f) == C18Includes(f) = <<>> /\ C18Excludes(f) = <<>>
\* the site predicates C18 does not speak of: LIKE in its forms, and NOT IN
C18Other(f) ==
    \/ f.cls = "BOUND_FUNCTION" /\ f.col = "site"
    \/ IsSitePredicate(f, "BOUND_OPERATOR", "COMPARE_NOT_IN")

\* C18: over the predicates on site with string literals, an equality adds one included
\* pattern, an inequality one excluded pattern, a set-membership with only literals one
\* included pattern per member in list order, and each of these is removed; a
\* set-membership with a non-literal member adds nothing and stays (stated for the
\* lists without LIKE and NOT IN predicates on site).
C18_SitePredicates ==
    [][Absorbed /\ (\A i \in DOMAIN filters : ~C18Other(filters[i]))
         => /\ site_includes' = site_includes \o C18AllIncludes(filters)
            /\ site_excludes' = site_excludes \o C18AllExcludes(filters)
            /\ filters' = SelectSeq(filters, C18Stays)]_vars

\* witness of C18: IN ('a.com', 'b.com'), <> 'c.com' and IN ('a.com', <column>) were
\* absorbed and only the last is left
C18_MembershipAbsorbed ==
    /\ pc = "filtered"
    /\ site_includes = <<"a.com", "b.com">>
    /\ site_excludes = <<"c.com">>
    /\ filters = <<[InList("site", <<"a.com", "b.com">>) EXCEPT !.args[2] = ColumnRef("VARCHAR")]>>

IsDateRange(f, etypes) ==
    /\ f.cls = "BOUND_COMPARISON" /\ f.etype \in etypes
    /\ f.col \in {"date", "timestamp"}
    /\ Len(f.args) = 1 /\ f.args[1].is_const
IsLowerBound(f) == IsDateRange(f, {"COMPARE_GREATERTHAN", "COMPARE_GREATERTHANOREQUALTO"})
IsUpperBound(f) == IsDateRange(f, {"COMPARE_LESSTHAN", "COMPARE_LESSTHANOREQUALTO"})
IsRange(f) == IsLowerBound(f) \/ IsUpperBound(f)
Temporal(f) == f.args[1].ltype \in {"TIMESTAMP", "TIMESTAMP_TZ", "DATE", "VARCHAR"}
\* i is the last predicate of fs of its kind with a date, timestamp or string literal
LastOf(fs, i, Kind(_)) ==
    /\ Kind(fs[i]) /\ Temporal(fs[i])
    /\ \A j \in DOMAIN fs : j > i => ~(Kind(fs[j]) /\ Temporal(fs[j]))

\* C19: a range comparison of the column date or timestamp with a literal is never
\* removed, whatever the predicate list, and with a date, timestamp or string literal
\* it sets the lower (>, >=) or upper (<, <=) date bound, the last such predicate
\* deciding.
C19_DateRangeRetained ==
    [][Absorbed
         => /\ SelectSeq(filters', IsRange) = SelectSeq(filters, IsRange)
            /\ \A i \in DOMAIN filters :
                  /\ LastOf(filters, i, IsLowerBound)
                        => /\ has_date_filter'
                           /\ date_from' = ConstantTimestamp(filters[i].args[1]).value
                  /\ LastOf(filters, i, IsUpperBound)
                        => /\ has_date_filter'
                           /\ date_to' = ConstantTimestamp(filters[i].args[1]).value]_vars

\* witness of C19: date >= '1970-01-02' and timestamp < DATE 3 set both bounds and are
\* both left, while a site predicate beside them was removed
C19_BothBoundsKept ==
    /\ pc = "filtered"
    /\ has_date_filter /\ date_from = DaySeconds /\ date_to = 3 * DaySeconds
    /\ site_includes = <<"a.com">>
    /\ filters = <<Compare("COMPARE_GREATERTHANOREQUALTO", "date", "VARCHAR", "1970-01-02"),
                   Compare("COMPARE_LESSTHAN", "timestamp", "DATE", 3)>>

\* f is an absorbed site predicate: absorbing it alone adds a site pattern
AbsorbsSite(f) ==
    LET b == AbsorbFilters(<<f>>, [site_includes |-> <<>>, site_excludes |-> <<>>,
                                   date_from |-> 0, date_to |-> 0,
                                   has_date_filter |-> FALSE, threw |-> FALSE])
    IN  b.site_includes # <<>> \/ b.site_excludes # <<>>
NotAbsorbsSite(f) == ~AbsorbsSite(f)

\* C20: the residual list is the input list without the absorbed site predicates:
\* every other predicate is left, unchanged and in its original relative order.
C20_ResidualIsInputMinusAbsorbed ==
    [][Absorbed => filters' = SelectSeq(filters, NotAbsorbsSite)]_vars

\* witness of C20: an unrecognised predicate and a date predicate are left in order
\* after a site predicate of the list was removed
C20_TwoLeftInOrder ==
    /\ pc = "filtered"
    /\ site_excludes = <<"c.com">>
    /\ filters = <<Compare("COMPARE_EQUAL", "title", "VARCHAR", "x"),
                   Compare("COMPARE_GREATERTHAN", "date", "INTEGER", 5)>>

(***************************************************************************)
(* The optimizer extension.                                                *)
(***************************************************************************)
\* WebSearchOptimizer has run over the plan
Optimized == pc # "optimized" /\ pc' = "optimized"

\* the operator directly above the scan, pass-through projections apart: its index in
\* the plan, 0 when only projections lie above the scan
AboveScan(p) ==
    IF \E i \in DOMAIN p : p[i].type # "LOGICAL_PROJECTION"
    THEN CHOOSE i \in DOMAIN p :
            /\ p[i].type # "LOGICAL_PROJECTION"
            /\ \A j \in DOMAIN p : j > i => p[j].type = "LOGICAL_PROJECTION"
    ELSE 0
ConstantLimitAboveScan(p) ==
    /\ AboveScan(p) # 0
    /\ p[AboveScan(p)].type = "LOGICAL_LIMIT"
    /\ p[AboveScan(p)].limit_type = "CONSTANT_VALUE"

\* C21: limit pushdown changes the row cap only for a limit directly above the scan,
\* projections apart, whose value is a constant L, to min(L, 100); with an unset,
\* expression or percentage limit there, or another operator between the limit and the
\* scan, the cap is left as it was.
C21_LimitPushdown ==
    [][Optimized
         => max_results' = IF ConstantLimitAboveScan(plan)
                           THEN Min(plan[AboveScan(plan)].limit_value, LimitPushdownCap)
                           ELSE max_results]_vars

\* witness of C21: LIMIT 15 was absorbed through a projection, below a limit that is
\* not directly above the scan
C21_AbsorbedThroughProjection ==
    /\ pc = "optimized"
    /\ plan = <<Limit("CONSTANT_VALUE", 0), Limit("CONSTANT_VALUE", 15),
                Node("LOGICAL_PROJECTION")>>
    /\ max_results = 15

DateOrderAboveScan(p) ==
    /\ AboveScan(p) # 0
    /\ p[AboveScan(p)].type = "LOGICAL_ORDER_BY"
    /\ Len(p[AboveScan(p)].orders) = 1
    /\ p[AboveScan(p)].orders[1].is_colref
    /\ p[AboveScan(p)].orders[1].column_index = DateColumn

Returned == pc = "returned"
\* the response of the i-th attempt of the call
Attempt(i) == ExecuteHttpGet(fetched.gets[i])
LastAttempt == Attempt(fetched.calls)
RetryableStatus(status_code) ==
    status_code <= 0 \/ status_code = 429 \/ status_code \in 500..504

\* C23: an attempt is followed by another only when its status is <= 0, 429 or in
\* 500..504; a response with any other non-success status is returned as it is after
\* that attempt, with no further http_get and no sleep after it.
C23_RetryOnlyRetryable ==
    Returned =>
        /\ \A i \in 1..(fetched.calls - 1) :
              ~Attempt(i).success /\ RetryableStatus(Attempt(i).status_code)
        /\ Len(fetched.waits) = fetched.calls - 1
        /\ (~LastAttempt.success /\ ~RetryableStatus(LastAttempt.status_code))
              => fetched.response = LastAttempt

\* witness of C23: two retryable failures, then 403 returned after the third attempt
C23_ForbiddenAfterTwoRetries ==
    /\ Returned
    /\ fetched.calls = 3 /\ Len(fetched.waits) = 2
    /\ fetched.response.status_code = 403
    /\ fetched.config = RetryConfig

\* the attempts of the last HttpClient::Fetch call of the scan
ScanAttempt(i) == ExecuteHttpGet(last.resp.gets[i])
\* every attempt of that call ended in a retryable outcome
AllAttemptsRetryable ==
    /\ requests > 0
    /\ \A i \in DOMAIN last.resp.gets :
          ~ScanAttempt(i).success /\ RetryableStatus(ScanAttempt(i).status_code)
\* the call gave up: "retries exhausted" naming its URL, and the scan failed with an
\* error whose message carries that text
GaveUpNamingUrl ==
    /\ Len(last.resp.error) = 2
    /\ last.resp.error[1] = "Max retries exceeded for URL: "
    /\ last.resp.error[2] = last.url
    /\ pc = "failed"
    /\ message.detail = last.resp.error

\* C24 as stated: when every attempt for a URL ends in a retryable outcome, Fetch gives
\* up after max_retries retryable failures with a failure naming the URL, and the scan
\* fails with an error whose message contains the URL.
C24_GivesUpAfterMaxRetriesFailures ==
    AllAttemptsRetryable => last.resp.calls = MaxRetries /\ GaveUpNamingUrl

\* C24, amended: Fetch gives up after max_retries + 1 retryable failures, the first
\* attempt and max_retries retries, having slept max_retries times.
C24_GivesUpAfterMaxRetriesRetries ==
    AllAttemptsRetryable
        => /\ last.resp.calls = MaxRetries + 1
           /\ Len(last.resp.waits) = MaxRetries
           /\ GaveUpNamingUrl

\* witness of C24: the second page of a scan exhausted the retries
C24_SecondPageExhausted ==
    /\ AllAttemptsRetryable
    /\ requests = 2
    /\ pc = "failed"
    /\ last.resp.status = 429

\* the last attempt of the HttpClient::Fetch call made in this step
Succeeded == ExecuteHttpGet(last'.resp.gets[Len(last'.resp.gets)])

\* C25: retries are transparent.  Whatever the number k of retryable failures before a
\* successful attempt (0 <= k <= max_retries), Fetch returns that attempt's status code
\* and body with no error, and the scan's records and cursor after the call are those
\* of an immediate success: they depend on the state before and on that response only.
C25_RetriesTransparent ==
    [][requests' = requests + 1 /\ Succeeded.success
         => /\ last'.resp.status = Succeeded.status_code
            /\ last'.resp.kind = Succeeded.body.kind
            /\ last'.resp.items = Succeeded.body.items
            /\ last'.resp.token = Succeeded.body.token
            /\ last'.resp.reason = Succeeded.body.reason
            /\ last'.resp.error = NoError
            /\ IF Succeeded.body.kind = "ok"
               THEN /\ pc' = pc
                    /\ results_size' = Min(max_results, results_size + Succeeded.body.items)
                    /\ IF \/ Succeeded.body.items = 0
                          \/ Succeeded.body.token = NoToken
                          \/ func = "google_search" /\ next_start >= MaxStartIndex
                       THEN fetch_complete' /\ next_start' = next_start
                       ELSE ~fetch_complete' /\ next_start' = Succeeded.body.token
               ELSE pc' = "failed" /\ results_size' = 0]_vars

\* witness of C25: the first page arrived after max_retries retryable failures and was
\* accumulated
C25_PageAfterThreeRetries ==
    /\ pc = "fetch"
    /\ requests = 1
    /\ last.resp.calls = MaxRetries + 1 /\ Len(last.resp.waits) = MaxRetries
    /\ last.resp.kind = "ok"
    /\ results_size = PageSize /\ next_start = 1 + PageSize

\* seconds * 1000 clamped to max_ms, without forming a product beyond max_ms
ClampedMs(seconds, max_ms) ==
    IF seconds > max_ms \div MsPerSecond THEN max_ms ELSE Min(seconds * MsPerSecond, max_ms)

\* the wait C26 gives for the retry after attempt i (1-based) of the call
C26Wait(i) ==
    LET response == Attempt(i)
        seconds == StoI(response.retry_after)
    IN  IF response.status_code = 429 /\ response.retry_after # "" /\ seconds.ok
        THEN ClampedMs(seconds.value, fetched.config.max_backoff_ms)
        ELSE Min(fetched.config.initial_backoff_ms
                    * Pow(fetched.config.backoff_multiplier, i - 1),
                 fetched.config.max_backoff_ms)

\* C26: the wait before retry number attempt (0-based) is min(max_backoff_ms, w), w
\* being the retry-after header as an integer count of seconds times 1000 when the
\* status is 429 and the header is present and parseable, and
\* initial_backoff_ms * multiplier^attempt otherwise; it never exceeds max_backoff_ms.
C26_WaitBeforeRetry ==
    Returned =>
        \A i \in DOMAIN fetched.waits :
            /\ fetched.waits[i] = C26Wait(i)
            /\ fetched.waits[i] <= fetched.config.max_backoff_ms

\* the attempts of the call are at most max_retries + 1, and the call slept once
\* between two attempts that follow each other and at no other time
AttemptsAndSleeps ==
    /\ fetched.calls >= 1
    /\ fetched.calls <= fetched.config.max_retries + 1
    /\ Len(fetched.waits) = fetched.calls - 1

Called == requests' = requests + 1

\* C27: a response transported with success whose body has an error member fails the
\* scan at once, with an InvalidInputException whose message carries the message of
\* the payload ("Unknown error" when the payload has none), with nothing accumulated
\* even if the body has items too, and with no request after it; a body that does not
\* parse fails the scan with an IOException, another kind of error.
C27_ApiErrorIsFatal ==
    [][/\ (Called /\ Succeeded.success /\ Succeeded.body.kind = "api_error")
            => (/\ pc' = "failed" /\ results_size' = 0
                /\ message'.exception = "InvalidInputException"
                /\ message'.text = "Google Search API error: %s"
                /\ message'.detail = IF Succeeded.body.reason # ""
                                      THEN <<Succeeded.body.reason>>
                                      ELSE <<"Unknown error">>)
       /\ (Called /\ Succeeded.success /\ Succeeded.body.kind = "malformed")
            => (/\ pc' = "failed" /\ results_size' = 0
                /\ message'.exception = "IOException")
       /\ (pc = "failed" => ~Called)]_vars

\* witness of C27: the second page carried items and an error member, and the scan
\* failed with the payload's message
C27_ErrorWithItems ==
    /\ pc = "failed"
    /\ requests = 2
    /\ last.resp.kind = "api_error" /\ last.resp.items = PageSize
    /\ message.detail = <<"quota exceeded">>
    /\ results_size = 0

\* C28: a response with status 400, 401 or 403 fails the scan after that one attempt,
\* and the message of the error carries the reason the response gives, when it gives
\* one.
C28_ClientErrorReason ==
    [][Called /\ last'.resp.kind = "http_error" /\ last'.resp.status \in {400, 401, 403}
         => /\ pc' = "failed"
            /\ Len(last'.resp.waits) = last'.resp.calls - 1
            /\ (last'.resp.reason # ""
                  => \E i \in DOMAIN message'.detail :
                        message'.detail[i] = last'.resp.reason)]_vars

\* C29: a scan is all-or-nothing.  A record is handed to the caller only once the
\* fetch phase has returned without an error; a scan ended by an error has discarded
\* the records it had accumulated and has handed none to the caller.
C29_AllOrNothing ==
    /\ (current_idx > 0 => pc \in {"complete", "done"} /\ error = "")
    /\ (error # "" => pc = "failed" /\ current_idx = 0 /\ results_size = 0)

\* witness of C29: the first page was accumulated, the second request failed, and the
\* scan ended with no record kept and none handed over
C29_FailedAfterFirstPage ==
    /\ pc = "failed"
    /\ requests = 2
    /\ served = PageSize
    /\ results_size = 0
    /\ current_idx = 0

\* C30: while the SecretManager holds no google_search secret, binding a scan fails
\* with an InvalidInputException telling that no secret was found, and no call of
\* HttpClient::Fetch has been made or is made.
C30_NoSecretNoRequest ==
    [][~secret.stored
         => /\ requests' = 0
            /\ (pc = "start" /\ pc' # "start")
                  => (/\ pc' = "failed"
                      /\ message'.exception = "InvalidInputException"
                      /\ message'.text = NoSecretFound)]_vars

\* witness of C30: a scan bound without a secret has failed at bind, with no request
C30_BindFailedWithoutSecret ==
    /\ pc = "failed"
    /\ ~secret.stored
    /\ message.text = NoSecretFound
    /\ requests = 0
    /\ api_key = "" /\ cx = ""

(***************************************************************************)
(* Image search against web search.                                        *)
(***************************************************************************)
\* C32: on the same state and the same response, an iteration of the image-search loop
\* does what an iteration of the single-query web-search loop does: it finishes the
\* cursor when the token is absent, when there are no items or when the start index
\* of the request has reached 100, and moves it to the token otherwise, so that both
\* issue the same start indices and stop at the same point.
C32_ImageLikeCombined ==
    [][(func = "google_image_search" /\ Called /\ last'.resp.kind = "ok")
         => LET parsed == ParsedNextStart(last'.resp) IN
            /\ last'.start = next_start
            /\ results_size' = results_size + Appended(last'.resp.items, results_size)
            /\ fetch_complete' = CursorDone(parsed, next_start)
            /\ next_start' = IF CursorDone(parsed, next_start) THEN next_start
                              ELSE AdvanceCursor(parsed, next_start)]_vars

(***************************************************************************)
(* The date restriction of a scan.                                         *)
(***************************************************************************)
\* C33: when no predicate of the scan sets a lower bound on the date column - also
\* when one sets an upper bound, which alone turns has_date_filter on - no URL the
\* scan requests carries a dateRestrict parameter.
C33_NoLowerBoundNoDateRestrict ==
    (requests > 0 /\ \A i \in DOMAIN filters : ~IsLowerBound(filters[i]))
        => last.url.dateRestrict = NoDateRestrict

\* witness of C33: an upper bound alone was absorbed, and the second page was
\* requested without a dateRestrict
C33_UpperBoundOnly ==
    /\ requests = 2
    /\ has_date_filter /\ date_to # 0 /\ date_from = 0
    /\ \E i \in DOMAIN filters : IsUpperBound(filters[i])
    /\ \A i \in DOMAIN filters : ~IsLowerBound(filters[i])
    /\ last.url.dateRestrict = NoDateRestrict

\* the days of the window a dateRestrict token names
UnitDays(unit) ==
    CASE unit = "d" -> 1 [] unit = "w" -> 7 [] unit = "m" -> 30 [] unit = "y" -> 365
      [] OTHER -> 0
WindowDays(tok) == tok.n * UnitDays(tok.unit)

\* C34: a dateRestrict token never narrows the query below the caller's lower bound:
\* the window it names reaches back at least to the bound, that is, it is at least as
\* long as the time elapsed since the bound when the URL was built.
C34_WindowCoversLowerBound ==
    (Built /\ pc = "compile" /\ has_date_filter /\ date_from # 0
       /\ last.url.dateRestrict # NoDateRestrict)
    => WindowDays(last.url.dateRestrict) * DaySeconds >= last.clock - date_from

(***************************************************************************)
(* Soundness of the absorption of site predicates.                         *)
(***************************************************************************)
\* an operator expression on the site column that is not a set-membership
OtherSiteOperator(f) ==
    f.cls = "BOUND_OPERATOR" /\ f.col = "site" /\ f.etype # "COMPARE_IN"
NotOtherSiteOperator(f) == ~OtherSiteOperator(f)

\* C35: an operator expression on the site column other than a set-membership, such
\* as site NOT IN (...), adds nothing to the included sites - they are those of the
\* list without such expressions - and stays in the residual list.
C35_OnlyPositiveMembership ==
    [][Absorbed
         => /\ site_includes' =
                  AbsorbFilters(SelectSeq(filters, NotOtherSiteOperator),
                                [site_includes |-> site_includes,
                                 site_excludes |-> site_excludes,
                                 date_from |-> date_from, date_to |-> date_to,
                                 has_date_filter |-> has_date_filter,
                                 threw |-> FALSE]).site_includes
            /\ \A i \in DOMAIN filters :
                  OtherSiteOperator(filters[i]) => Occurs(filters', filters[i])]_vars

\* site values: the literals of the predicates and one that is none of them
SiteValues == {"a.com", "b.com", "c.com", "z.com"}

\* a row whose site is v passes the compiled filter set
Admitted(v, includes, excludes) ==
    /\ includes # <<>> => Occurs(includes, v)
    /\ ~Occurs(excludes, v)

\* a row whose site is v satisfies predicate f (equality, inequality or membership)
Satisfies(v, f) ==
    CASE f.etype = "COMPARE_EQUAL" -> v = f.args[1].val
      [] f.etype = "COMPARE_NOTEQUAL" -> v # f.args[1].val
      [] f.etype = "COMPARE_IN" -> \E j \in DOMAIN f.args : v = f.args[j].val

C36Predicate(f) ==
    /\ \/ IsSitePredicate(f, "BOUND_COMPARISON", "COMPARE_EQUAL")
       \/ IsSitePredicate(f, "BOUND_COMPARISON", "COMPARE_NOTEQUAL")
       \/ IsSitePredicate(f, "BOUND_OPERATOR", "COMPARE_IN")
    /\ StringLiterals(f)

\* C36: for a list of equalities, inequalities and memberships on site, every site
\* value the compiled filter set admits satisfies every predicate that was removed
\* from the list.
C36_AbsorptionSound ==
    [][(Absorbed /\ \A i \in DOMAIN filters : C36Predicate(filters[i]))
         => \A v \in SiteValues :
               Admitted(v, site_includes', site_excludes')
               => \A i \in DOMAIN filters :
                     ~Occurs(filters', filters[i]) => Satisfies(v, filters[i])]_vars

(***************************************************************************)
(* Limit pushdown and the offset of the limit.                             *)
(***************************************************************************)
\* C37: when the limit absorbed has constant limit L and an offset o above 0, the row
\* cap of the scan is at least min(100, L + o): the rows the limit operator skips and
\* the rows it passes on are all fetched.
C37_CapCoversOffset ==
    [][(Optimized /\ ConstantLimitAboveScan(plan) /\ plan[AboveScan(plan)].offset > 0)
         => max_results' >= Min(LimitPushdownCap,
                                plan[AboveScan(plan)].limit_value
                                    + plan[AboveScan(plan)].offset)]_vars

(***************************************************************************)
(* The API key and the error messages.                                     *)
(***************************************************************************)
\* a part of an error text that carries the API key: the URL of a request
CarriesKey(detail) == Len(detail) = 2 /\ detail[2].key = api_key

\* C38: the message of the error that ends a scan does not depend on the API key: no
\* part of it carries the key.
C38_NoKeyInErrorText ==
    pc = "failed" => ~CarriesKey(message.detail)

(***************************************************************************)
(* The derived columns of a record.                                        *)
(***************************************************************************)
\* the position (from 1) of the first character of str at or after from that is in
\* stops, Len(str) + 1 when there is none
FirstOf(str, stops, from) ==
    LET hits == {i \in from..Len(str) : str[i] \in stops}
    IN  IF hits = {} THEN Len(str) + 1 ELSE CHOOSE i \in hits : \A k \in hits : i <= k

\* the host of a link: what stands after "://" up to the port, path, query or fragment
HostOf(link) ==
    LET scheme == StrFind(link, <<":", "/", "/">>, 0)
        first == IF scheme = -1 THEN 1 ELSE scheme + 4
    IN  SubSeq(link, first, FirstOf(link, {":", "/", "?", "#"}, first) - 1)

\* C39: every record has its site set to the host of its link and an empty date, and
\* every row of a chunk has NULL in the date column.
C39_SiteIsHostDateNull ==
    /\ \A i \in 1..Len(results) :
          results[i].site = HostOf(results[i].link) /\ results[i].date = ""
    /\ \A i \in 1..Len(output) : output[i].date.is_null

(***************************************************************************)
(* The annotation writer under concurrent Sink calls.                      *)
(***************************************************************************)
RECURSIVE SizeOf(_)
\* the size of a file made of the given pieces
SizeOf(pieces) == IF pieces = <<>> THEN 0 ELSE Head(pieces).size + SizeOf(Tail(pieces))

AnnotationBlocks == SelectSeq(gstate.handle.pieces, LAMBDA p : p.kind = "annotation")

\* the row a Sink call is about to examine would, written as a block, break a limit
WouldBreakLimit(w) ==
    /\ sinks[w].pc = "row"
    /\ sinks[w].row_idx < Len(sinks[w].input)
    /\ LET row == sinks[w].input[sinks[w].row_idx + 1]
       IN  /\ row.url.valid
           /\ row.action.valid
           /\ \/ Len(AnnotationBlocks) + 1 > MAX_ANNOTATIONS
              \/ SizeOf(gstate.handle.pieces) + XmlSize(row) + Len(footer)
                     > MAX_FILE_SIZE_BYTES

\* C40: under any interleaving of the workers' Sink calls and Finalize, the two counters
\* change only in a step of the one worker that holds the lock; annotation_count is at
\* most 5000 and is the number of blocks in the file; bytes_written is the header plus
\* the blocks; the file with its closing tag is at most 30720 bytes; a row that would
\* break a limit makes the call throw and is not written.
C40_WriterLimits ==
    /\ [](/\ gstate.annotation_count <= MAX_ANNOTATIONS
          /\ gstate.annotation_count = Len(AnnotationBlocks)
          /\ gstate.bytes_written = Len(header) + SizeOf(AnnotationBlocks)
          /\ SizeOf(gstate.handle.pieces)
                 + (IF gstate.handle.closed THEN 0 ELSE Len(footer)) <= MAX_FILE_SIZE_BYTES
          /\ (gstate.handle.closed =>
                 SizeOf(gstate.handle.pieces) = gstate.bytes_written + Len(footer)))
    /\ [][/\ ((gstate'.annotation_count # gstate.annotation_count
                  \/ gstate'.bytes_written # gstate.bytes_written)
              => \E w \in Workers :
                    /\ gstate.lock = {w}
                    /\ gstate'.lock = {w}
                    /\ \A v \in Workers \ {w} : sinks'[v] = sinks[v])
          /\ \A w \in Workers :
                (WouldBreakLimit(w) /\ sinks'[w] # sinks[w])
                => /\ sinks'[w].pc = "thrown"
                   /\ error' = "InvalidInputException"
                   /\ gstate'.handle = gstate.handle]_vars

\* the COPY has finished with blocks of two workers in a file of exactly 30720 bytes
C40_TwoWritersFullFile ==
    /\ pc = "finalized"
    /\ gstate.handle.closed
    /\ SizeOf(gstate.handle.pieces) = MAX_FILE_SIZE_BYTES
    /\ \A w \in Workers : \E i \in 1..Len(gstate.handle.pieces) :
          gstate.handle.pieces[i].by = w

====
